---- MODULE Spec2Model ----
(***************************************************************************)
(* A model of dang: a GDB remote-serial-protocol server whose target is a  *)
(* recorded waveform.  The Waver engine (src/src/runtime.rs) moves a       *)
(* cursor over the change points of the pc signal; the gdbstub target      *)
(* handlers (src/dang/src/gdb.rs) read it, set breakpoints and choose the  *)
(* execution mode; the event loop (src/dang/src/cli.rs) calls run().       *)
(***************************************************************************)
EXTENDS Integers, Sequences, FiniteSets, TLC

(***************************************************************************)
(* Bounds of the model.                                                    *)
(***************************************************************************)
\* time-table indices of the enumerated waveforms are 0..MaxTime
MaxTime == 2
\* the debugger sets at most this many breakpoint entries
MaxBps == 2
\* the registers x0, x1, .. the model carries (the program has 32)
NumGprs == 2
\* number of change points of the long waveform of SpecLong
LongLen == 1026
\* the declared widths of the signal values of SpecConv are 1..MaxWidth
MaxWidth == 40

(***************************************************************************)
(* Program constants.                                                      *)
(***************************************************************************)
\* run() polls for incoming data when cycles % 1024 == 0
PollEvery == 1024
\* size_of::<u32>() * 8, the widest value u32::try_from_signal accepts
U32Bits == 32
\* size_of::<u32>(), the length of the byte array from_be_bytes takes
U32Bytes == 4

(***************************************************************************)
(* Option values and panics.                                               *)
(***************************************************************************)
None == [tag |-> "None"]
Some(x) == [tag |-> "Some", val |-> x]
Panic == [tag |-> "Panic"]

IsSome(o) == o.tag = "Some"

RECURSIVE Decimal(_)
\* the decimal digits of a number, as "{}" formats it
Decimal(n) ==
    IF n < 10 THEN << n >> ELSE Decimal(n \div 10) \o << n % 10 >>

(***************************************************************************)
(* Signal values (wellen::SignalValue) and their conversion.               *)
(***************************************************************************)
\* the two program counters the enumerated waveforms use
PcVals == {4, 8}

\* A u32 is written as the integer of -2^31 .. 2^31 - 1 congruent to it
\* modulo 2^32, so 0xFFFFFFFF is -1 and u32 arithmetic keeps its width.
\* the big-endian bytes of a 32-bit value
BeBytes(x) ==
    << (x \div 16777216) % 256, (x \div 65536) % 256, (x \div 256) % 256, x % 256 >>

Binary(x) == [tag |-> "Binary", bytes |-> BeBytes(x), bits |-> U32Bits]
\* a value with x/z bits: not SignalValue::Binary
FourValue == [tag |-> "FourValue"]

SigVals == { Binary(x) : x \in PcVals } \cup { FourValue }

from_be_bytes(b) ==
    (((IF b[1] >= 128 THEN b[1] - 256 ELSE b[1]) * 256 + b[2]) * 256 + b[3]) * 256 + b[4]

\* <u32 as Mappable>::try_from_signal
try_from_signal(sv) ==
    IF sv.tag = "Binary"
    THEN IF sv.bits <= U32Bytes * 8
         THEN IF Len(sv.bytes) = U32Bytes
              THEN Some(from_be_bytes(sv.bytes))
              ELSE None
         ELSE None
    ELSE None

\* Mappable::from_signal: expect() on the conversion
from_signal(sv) ==
    IF IsSome(try_from_signal(sv)) THEN try_from_signal(sv) ELSE Panic

(***************************************************************************)
(* Signals.  A signal is the sequence of its change points in time order,  *)
(* each [t |-> time-table index, v |-> value]; a signal maps a time index  *)
(* to at most one value.                                                   *)
(***************************************************************************)
time_indices(sig) == [i \in 1..Len(sig) |-> sig[i].t]

\* wellen::Signal::get_offset: the position of the change point at or
\* before idx, and the time index of the next change point
get_offset(sig, idx) ==
    IF sig = <<>> \/ sig[1].t > idx THEN None
        ELSE LET start == CHOOSE i \in 1..Len(sig) :
                              /\ sig[i].t <= idx
                              /\ i < Len(sig) => sig[i + 1].t > idx
             IN  Some([start |-> start,
                       next_index |-> IF start < Len(sig)
                                      THEN Some(sig[start + 1].t)
                                      ELSE None])

try_get_val(sig, idx) ==
    LET data_offset == get_offset(sig, idx)
    IN  IF IsSome(data_offset) THEN Some(sig[data_offset.val.start].v) ELSE None

\* get_val: try_get_val(idx).unwrap()
get_val(sig, idx) ==
    IF IsSome(try_get_val(sig, idx)) THEN try_get_val(sig, idx) ELSE Panic

try_get_next_val(sig, idx) ==
    LET val == get_offset(sig, idx)
    IN  IF ~IsSome(val) THEN None
        ELSE LET ni == val.val.next_index
             IN  IF ~IsSome(ni) THEN None
                 ELSE LET offset == get_offset(sig, ni.val)
                      IN  IF ~IsSome(offset) THEN None
                          ELSE Some([sig |-> sig[offset.val.start].v, idx |-> ni.val])

\* the positions (from 0) of the change points whose value converts to value
MatchPositions(sig, value) ==
    { i \in 1..Len(sig) :
        LET v == get_val(sig, sig[i].t)
        IN  /\ IsSome(v)
            /\ try_from_signal(v.val) = Some(value) }

\* find_idx: the position of the first matching change point, as a u32
find_idx(sig, value) ==
    LET m == MatchPositions(sig, value)
    IN  IF m = {} THEN None
        ELSE Some((CHOOSE i \in m : \A j \in m : i <= j) - 1)

(***************************************************************************)
(* Construction: merge_changes, create_loaded_waves, Waver::new.           *)
(***************************************************************************)
RECURSIVE Merge2(_, _)
\* the ordered merge of two ordered sequences, every element kept
Merge2(a, b) ==
    IF a = <<>> THEN b
    ELSE IF b = <<>> THEN a
    ELSE IF a[1] <= b[1] THEN <<a[1]>> \o Merge2(Tail(a), b)
    ELSE <<b[1]>> \o Merge2(a, Tail(b))

RECURSIVE MergeAll(_)
MergeAll(arrays) ==
    IF arrays = <<>> THEN <<>> ELSE Merge2(arrays[1], MergeAll(Tail(arrays)))

\* merge_changes: Item::get_item indexes arr[idx], out of bounds for an
\* empty array
merge_changes(arrays) ==
    IF \E i \in 1..Len(arrays) : arrays[i] = <<>>
    THEN Panic
    ELSE Some(MergeAll(arrays))

\* the names of the signal map: "pc" and format!("x{val}"), as characters
\* and digits
PcName == << "pc" >>
GprName(val) == << "x" >> \o Decimal(val)

\* validate_get_signals on the outcome py of the signal-map script: the
\* map when the script ran, whatever names it holds
validate_get_signals(py) ==
    LET missing_signals ==
            { n \in {PcName} \cup { GprName(i) : i \in 0..(NumGprs - 1) } :
                n \notin py.names }
    IN  [signals |-> IF py.ok THEN Some(py.names) ELSE None]

Err(msg) == [tag |-> "Err", msg |-> msg]

\* create_loaded_waves: the cursor, an error value, or a panic
create_loaded_waves(py, pc, gprs, first_pc) ==
    LET script_output == validate_get_signals(py)
        all_changes_together ==
            <<time_indices(pc)>> \o [i \in 1..Len(gprs) |-> time_indices(gprs[i])]
        all_changes == merge_changes(all_changes_together)
        first_pc_idx == find_idx(pc, first_pc)
    IN  IF ~IsSome(script_output.signals)
        THEN Err(<< "Failed to validate get_gdb_signals" >>)
        ELSE IF PcName \notin script_output.signals.val THEN Panic
        ELSE IF \E val \in 0..(Len(gprs) - 1) :
                    GprName(val) \notin script_output.signals.val
        THEN Panic
        ELSE IF all_changes = Panic THEN Panic
        ELSE IF ~IsSome(first_pc_idx) THEN Panic
        ELSE Some([time_idx |-> first_pc_idx.val, all_changes |-> all_changes.val])

(***************************************************************************)
(* The waveforms, memories and requests the model draws from.              *)
(***************************************************************************)
RECURSIVE SortedSeq(_)
\* the elements of a set of numbers in increasing order
SortedSeq(S) ==
    IF S = {} THEN <<>>
    ELSE LET lo == CHOOSE x \in S : \A y \in S : x <= y
         IN  <<lo>> \o SortedSeq(S \ {lo})

\* every signal whose change points lie at the time indices T
SignalsAt(T) ==
    LET ts == SortedSeq(T)
    IN  { [i \in 1..Len(ts) |-> [t |-> ts[i], v |-> vs[i]]] :
            vs \in [1..Len(ts) -> SigVals] }

PcSignals == UNION { SignalsAt(T) : T \in SUBSET (0..MaxTime) }

\* the register signals: one that never changes after time 0, one that
\* first changes at time 1 and later carries x bits
Steady == << [t |-> 0, v |-> Binary(0)] >>
Late == << [t |-> 1, v |-> Binary(7)], [t |-> 2, v |-> FourValue] >>

\* the register files: all steady, x1 late, or no change point at all
GprFiles ==
    { [i \in 1..NumGprs |-> Steady],
      [i \in 1..NumGprs |-> IF i = 2 THEN Late ELSE Steady],
      [i \in 1..NumGprs |-> <<>>] }

\* the names the model's register file needs in the signal map
RequiredNames == {PcName} \cup { GprName(val) : val \in 0..(NumGprs - 1) }

\* what the signal-map script gives: every name, a map without pc, a map
\* without x1, or a failure of the script
PySignals ==
    { [ok |-> TRUE, names |-> RequiredNames],
      [ok |-> TRUE, names |-> RequiredNames \ {PcName}],
      [ok |-> TRUE, names |-> RequiredNames \ {GprName(1)}],
      [ok |-> FALSE, names |-> {}] }

RECURSIVE Pow2(_)
Pow2(k) == IF k = 0 THEN 1 ELSE 2 * Pow2(k - 1)

\* the bytes wellen stores for a two-state value of width w: 8 bits a
\* byte, the first byte holding the bits left over
ByteVals == {1, 255}
BytesOf(w) ==
    LET n == (w + 7) \div 8
    IN  { b \in [1..n -> ByteVals] : b[1] < Pow2(w - 8 * (n - 1)) }

\* the two-state values of every width up to MaxWidth
WideVals ==
    UNION { { [tag |-> "Binary", bytes |-> b, bits |-> w] : b \in BytesOf(w) } :
              w \in 1..MaxWidth }

\* DummyMem after the ELF sections are loaded: address -> byte
MemChoices ==
    { [a \in {4, 5, 0, -1} |->
          IF a = 4 THEN 19 ELSE IF a = 5 THEN 111 ELSE IF a = 0 THEN 7 ELSE 200] }

\* the path of the ELF, as bytes
ElfPaths == { <<97, 46, 111>> }

BpAddrs == PcVals

\* the memory reads and the exec-file reads the debugger sends
ReadStarts == {4, -1}
ReadLens == {3}
ExecOffsets == {1}
ExecLens == {4, -1}
ExecBufLens == {2, 8}
Ranges == { <<4, 8>>, <<4, 12>> }

ExecStep == [tag |-> "Step"]
ExecContinue == [tag |-> "Continue"]
ExecRangeStep(start, end) == [tag |-> "RangeStep", start |-> start, end |-> end]

(***************************************************************************)
(* The debugger client (shucks): packets are sequences of bytes.           *)
(***************************************************************************)
Dollar == 36
Hash == 35
AckByte == 43
NackByte == 45

ParseError(kind) == [tag |-> "ParseError", kind |-> kind]

\* RawGdbResponse { data, omitted }
RawGdbResponse(data, omitted) == [tag |-> "Ok", data |-> data, omitted |-> omitted]

\* str::from_utf8 of the two checksum bytes
from_utf8(b) ==
    \/ b[1] < 128 /\ b[2] < 128
    \/ b[1] \in 194..223 /\ b[2] \in 128..191

\* char::to_digit(16)
to_digit(b) ==
    IF b \in 48..57 THEN Some(b - 48)
    ELSE IF b \in 97..102 THEN Some(b - 87)
    ELSE IF b \in 65..70 THEN Some(b - 55)
    ELSE None

\* u8::from_str_radix(src, 16) of a string of at most two bytes: an optional
\* `+` sign, then hexadecimal digits of either case
from_str_radix(src) ==
    IF src = <<>> THEN None
    ELSE IF src[1] \in {AckByte, NackByte} /\ Len(src) = 1 THEN None
    ELSE LET digits == IF src[1] = AckByte THEN Tail(src) ELSE src
         IN  IF \E i \in 1..Len(digits) : to_digit(digits[i]) = None THEN None
             ELSE IF Len(digits) = 1 THEN to_digit(digits[1])
             ELSE Some(to_digit(digits[1]).val * 16 + to_digit(digits[2]).val)

\* content.iter().fold(0u8, |acc, &b| acc.wrapping_add(b))
RECURSIVE actual_checksum(_)
actual_checksum(content) ==
    IF content = <<>> THEN 0
    ELSE (actual_checksum(SubSeq(content, 1, Len(content) - 1)) + content[Len(content)]) % 256

\* iter().position(|&b| b == b'#') from the 0-based index `from`, as a
\* 0-based index of data
hash_position(data, from) ==
    IF \E i \in (from + 1)..Len(data) : data[i] = Hash
    THEN Some((CHOOSE i \in (from + 1)..Len(data) :
                  /\ data[i] = Hash
                  /\ \A j \in (from + 1)..(i - 1) : data[j] # Hash) - 1)
    ELSE None

\* data[a..b] of Rust, 0-based and half-open
Slice(data, a, b) == SubSeq(data, a + 1, b)

\* RawGdbResponse::find_packet_data
find_packet_data(data) ==
    IF data = <<>> THEN ParseError("InvalidFormat")
    ELSE IF data[1] = AckByte \/ data[1] = NackByte THEN RawGdbResponse(<< data[1] >>, 0)
    ELSE IF Len(data) < 4 \/ data[1] # Dollar THEN ParseError("InvalidFormat")
    ELSE LET hash_pos == hash_position(data, 0)
         IN  IF hash_pos = None THEN ParseError("InvalidFormat")
             ELSE IF hash_pos.val + 3 > Len(data) THEN ParseError("InvalidFormat")
             ELSE LET content == Slice(data, 1, hash_pos.val)
                      checksum_str == Slice(data, hash_pos.val + 1, hash_pos.val + 3)
                  IN  IF ~from_utf8(checksum_str) THEN ParseError("InvalidFormat")
                      ELSE LET expected_checksum == from_str_radix(checksum_str)
                           IN  IF expected_checksum = None THEN ParseError("InvalidChecksum")
                               ELSE IF actual_checksum(content) # expected_checksum.val
                               THEN ParseError("InvalidChecksum")
                               ELSE RawGdbResponse(content, 4)

\* RawGdbResponse::entire_packet_len
entire_packet_len(raw) ==
    IF Len(raw.data) = 1 /\ (raw.data[1] = AckByte \/ raw.data[1] = NackByte)
    THEN 1
    ELSE Len(raw.data) + raw.omitted

\* Client::validate_checksum
validate_checksum(data, start_idx, hash_pos) ==
    IF Len(data) < hash_pos + 3 THEN FALSE
    ELSE LET packet_content == Slice(data, start_idx + 1, hash_pos)
             checksum_str == Slice(data, hash_pos + 1, hash_pos + 3)
         IN  /\ from_utf8(checksum_str)
             /\ from_str_radix(checksum_str) # None
             /\ actual_checksum(packet_content) = from_str_radix(checksum_str).val

\* Client::validate_gdb_response
validate_gdb_response(data) ==
    IF data = <<>> THEN FALSE
    ELSE IF Len(data) = 1 /\ (data[1] = AckByte \/ data[1] = NackByte) THEN TRUE
    ELSE IF ~(\/ Len(data) > 1 /\ data[1] = AckByte /\ data[2] = Dollar
              \/ data[1] = Dollar)
    THEN FALSE
    ELSE LET start_idx == IF Len(data) > 1 /\ data[1] = AckByte /\ data[2] = Dollar
                          THEN 1 ELSE 0
             hash_pos == hash_position(data, start_idx)
         IN  /\ hash_pos # None
             /\ Len(data) >= hash_pos.val + 3
             /\ validate_checksum(data, start_idx, hash_pos.val)

\* Client::find_first_complete_packet: the packet found and the rest of the
\* buffer, from the bytes and the length of what find_packet_data returned
find_first_complete_packet(buffer) ==
    LET mdata == find_packet_data(buffer)
    IN  IF mdata.tag = "Ok"
        THEN Some([found |-> mdata.data,
                   remaining |-> Slice(buffer, Len(mdata.data), Len(buffer))])
        ELSE None

(***************************************************************************)
(* What the server may put on the wire: framed packets with every          *)
(* checksum field of two bytes of CsBytes, acknowledgements, and bytes     *)
(* that follow a packet.                                                   *)
(***************************************************************************)
MaxContent == 2
MaxCmds == 2

ContentBytes == {AckByte, NackByte, 79, 75}
CsBytes == {48, 50, 57, 97, 98, 100, 65, AckByte, 103, 255}
Contents == UNION { [1..n -> ContentBytes] : n \in 0..MaxContent }
CsFields == [1..2 -> CsBytes]
Frame(c, hh) == << Dollar >> \o c \o << Hash >> \o hh
OkPacket == Frame(<< 79, 75 >>, << 57, 97 >>)
Acks == { << AckByte >>, << NackByte >> }
Framed == { Frame(c, hh) : c \in Contents, hh \in CsFields }
Trailings == { <<>>, << Dollar >>, << AckByte >>, OkPacket }
\* the two-hex-digit value of a byte, in either case
IsHexOf(hh, n) ==
    /\ to_digit(hh[1]) # None /\ to_digit(hh[2]) # None
    /\ to_digit(hh[1]).val * 16 + to_digit(hh[2]).val = n
\* the replies of the server to one command
\* a framed packet whose checksum field is not the sum of its content
BadPacket == Frame(<< 79, 75 >>, << 48, 48 >>)
Replies == { OkPacket, << AckByte >> \o OkPacket, << AckByte >>, Frame(<<>>, << 48, 48 >>),
             << Dollar, 79 >>, BadPacket, BadPacket \o OkPacket }
\* the longest reply
MaxReply == 2 * (MaxContent + 4)

(***************************************************************************)
(* State.                                                                  *)
(***************************************************************************)
VARIABLES
    py_signals,     \* what the signal-map script returned to construction
    waves,          \* Waver.waves: [pc, gprs]
    cursor,         \* Waver.cursor: [time_idx, all_changes]
    mem,            \* Waver.mem
    breakpoints,    \* Waver.breakpoints
    exec_mode,      \* Waver.exec_mode
    elf_path,       \* Waver.elf_path
    first_pc,       \* the first PC Waver::new took from the ELF
    phase,          \* where the server is: "failed", "aborted", "idle", "replying",
                    \* "running", "incoming", "panicked", "exited"
    cycles,         \* run(): the loop counter
    polled,         \* run(): the poll of this iteration is done
    since_poll,     \* steps run() took since its last poll
    polls,          \* polls run() made since it was entered
    request,        \* the request being served, "" while waiting for one
    req_args,       \* the arguments of that request
    run_start,      \* cursor.time_idx when the current run() was entered
    stepped,        \* the step() call of the last transition, if any
    halted,         \* a step() call has returned Halted
    fresh,          \* run() has not been called since construction
    ret,            \* what the handler or run() returned, until it is sent
    client,         \* the debugger client: its buffer, its stream and its history
    stepper,        \* Addr2lineStepper: the line table, load_bias and its last call
    debugger        \* DebuggerModel: cached_time_idx, terminated and the call it is in

vars == << py_signals, waves, cursor, mem, breakpoints, exec_mode, elf_path, first_pc, phase,
           cycles, polled, since_poll, polls, run_start, stepped, halted, fresh, request, req_args, ret,
           client, stepper, debugger >>

NoCall == [tag |-> "NoCall"]

\* Client::new: nothing buffered, nothing on the stream, no command sent;
\* packet and trailing are the bytes the packet functions are applied to
NewClient ==
    [response_buffer |-> <<>>, strm |-> <<>>, reading |-> FALSE,
     replies |-> <<>>, responses |-> <<>>,
     packet |-> <<>>, trailing |-> <<>>, raw |-> None, valid |-> None, first |-> None,
     command |-> None, pkt |-> None, parsed |-> None, decoded |-> None, inst |-> None,
     elf_info |-> None, sym |-> None]

\* Addr2lineStepper::new: the line table of the ELF and the load bias
Addr2lineStepper_new(rows, load_bias) ==
    [rows |-> rows, load_bias |-> load_bias, call |-> None]

\* the stepper of an ELF without line rows
NewStepper == Addr2lineStepper_new(<<>>, 0)

\* DebuggerModel::new; `at` is the call the model is in ("idle" between
\* calls) and `last` the call that returned last
NewDebugger ==
    [cached_time_idx |-> None, terminated |-> FALSE, at |-> "idle", last |-> None]

\* Waver::new: the state after construction, the error it returned, or
\* the aborted process
NewWaver(py, pc, gprs, fpc, m) ==
    LET loaded == create_loaded_waves(py, pc, gprs, fpc)
    IN  /\ py_signals = py
        /\ waves = [pc |-> pc, gprs |-> gprs]
        /\ first_pc = fpc
        /\ mem = m
        /\ breakpoints = <<>>
        /\ exec_mode = ExecStep
        /\ cycles = 0
        /\ polled = FALSE
        /\ since_poll = 0
        /\ polls = 0
        /\ request = ""
        /\ req_args = <<>>
        /\ run_start = 0
        /\ stepped = NoCall
        /\ halted = FALSE
        /\ fresh = TRUE
        /\ elf_path \in ElfPaths
        /\ IF IsSome(loaded)
           THEN /\ cursor = loaded.val
                /\ phase = "idle"
                /\ ret = [tag |-> "NoRet"]
           ELSE /\ cursor = [time_idx |-> 0, all_changes |-> <<>>]
                /\ phase = IF loaded = Panic THEN "aborted" ELSE "failed"
                /\ ret = loaded

Init ==
    /\ \E py \in PySignals, pc \in PcSignals, gprs \in GprFiles, fpc \in PcVals,
          m \in MemChoices :
           NewWaver(py, pc, gprs, fpc, m)
    /\ client = NewClient
    /\ stepper = NewStepper
    /\ debugger = NewDebugger

(***************************************************************************)
(* The engine: Waver::get_current_pc, get_current_gpr, next_pc, step.      *)
(***************************************************************************)
\* get_current_pc: Some(pc), or Panic when get_val or from_signal fails
get_current_pc(w, c) ==
    LET v == get_val(w.pc, c.time_idx)
    IN  IF v = Panic THEN Panic ELSE from_signal(v.val)

get_current_gpr(w, c, idx) ==
    LET v == get_val(w.gprs[idx], c.time_idx)
    IN  IF v = Panic THEN Panic ELSE from_signal(v.val)

\* next_pc: the cursor after the call and the value returned
next_pc(w, c) ==
    LET prev_pc == get_current_pc(w, c)
        nxt == try_get_next_val(w.pc, c.time_idx)
    IN  IF prev_pc = Panic THEN [time_idx |-> c.time_idx, ret |-> Panic]
        ELSE IF ~IsSome(nxt) THEN [time_idx |-> c.time_idx, ret |-> None]
        ELSE LET new_pc == try_from_signal(nxt.val.sig)
             IN  [time_idx |-> nxt.val.idx,
                  ret |-> IF prev_pc = new_pc THEN None ELSE new_pc]

\* step with only the first breakpoint looked up
step_first_bp(w, c, bps) ==
    LET n == next_pc(w, c)
        after == [c EXCEPT !.time_idx = n.time_idx]
    IN  IF n.ret = Panic THEN [time_idx |-> n.time_idx, ret |-> Panic, tested |-> None]
        ELSE IF IsSome(n.ret)
        THEN [time_idx |-> n.time_idx,
              ret |-> IF bps # <<>> /\ bps[1] = n.ret.val THEN Some("Break") ELSE None,
              tested |-> n.ret]
        ELSE [time_idx |-> n.time_idx,
              ret |-> IF get_current_pc(w, after) = Panic
                      THEN Panic ELSE Some("Halted"),
              tested |-> None]

\* step with the breakpoints looked up for the pc the step leaves
step_departure(w, c, bps) ==
    LET n == next_pc(w, c)
        prev == get_current_pc(w, c)
    IN  IF n.ret = Panic THEN [time_idx |-> n.time_idx, ret |-> Panic, tested |-> None]
        ELSE IF IsSome(n.ret)
        THEN [time_idx |-> n.time_idx,
              ret |-> IF \E i \in 1..Len(bps) : bps[i] = prev.val
                      THEN Some("Break") ELSE None,
              tested |-> prev]
        ELSE [time_idx |-> n.time_idx, ret |-> Some("Halted"), tested |-> None]

\* step: the cursor after the call, the event returned, and the pc that
\* was looked up in breakpoints
step(w, c, bps) ==
    LET n == next_pc(w, c)
        after == [c EXCEPT !.time_idx = n.time_idx]
    IN  IF n.ret = Panic THEN [time_idx |-> n.time_idx, ret |-> Panic, tested |-> None]
        ELSE IF IsSome(n.ret)
        THEN [time_idx |-> n.time_idx,
              ret |-> IF \E i \in 1..Len(bps) : bps[i] = n.ret.val
                      THEN Some("Break") ELSE None,
              tested |-> n.ret]
        ELSE [time_idx |-> n.time_idx,
              ret |-> IF get_current_pc(w, after) = Panic
                      THEN Panic ELSE Some("Halted"),
              tested |-> None]

\* DummyMem::r8
r8(m, addr) == IF addr \in DOMAIN m THEN m[addr] ELSE 0

(***************************************************************************)
(* The gdbstub target handlers (src/dang/src/gdb.rs).                      *)
(***************************************************************************)
\* results of the handlers: Ok(value), Err(NonFatal), a fatal target error
Ok(kind, x) == [tag |-> "Ok", kind |-> kind, val |-> x]
NonFatal == [tag |-> "NonFatal"]
Fatal == [tag |-> "Fatal"]

add_sw_breakpoint(bps, addr) == [breakpoints |-> Append(bps, addr), ret |-> Ok("Bool", TRUE)]

\* the sequence without its element at position pos
RemoveAt(seq, pos) == SubSeq(seq, 1, pos - 1) \o SubSeq(seq, pos + 1, Len(seq))

remove_sw_breakpoint(bps, addr) ==
    LET found == { i \in 1..Len(bps) : bps[i] = addr }
    IN  IF found = {} THEN [breakpoints |-> bps, ret |-> Ok("Bool", FALSE)]
        ELSE [breakpoints |-> RemoveAt(bps, CHOOSE i \in found : \A j \in found : i <= j),
              ret |-> Ok("Bool", TRUE)]

\* read_registers: regs.pc and regs.x, or Panic
read_registers(w, c) ==
    LET pc == get_current_pc(w, c)
        x == [i \in 1..Len(w.gprs) |-> get_current_gpr(w, c, i)]
    IN  IF pc = Panic \/ \E i \in 1..Len(w.gprs) : x[i] = Panic
        THEN Panic
        ELSE Ok("Regs", [pc |-> pc.val, x |-> [i \in 1..Len(w.gprs) |-> x[i].val]])

write_registers(w, c) == NonFatal

\* u32::wrapping_add of a small k
wrapping_add(a, k) ==
    IF a > 2147483647 - k THEN ((a - 2147483647) - 1) + ((k - 2147483647) - 1) ELSE a + k

\* <RangeFrom<u32> as Iterator>::next: the item, the new start, and whether
\* Step::forward overflows, which panics in a build with overflow checks
\* and wraps in one without
RangeFromNext(start, overflow_checks) ==
    [item |-> start,
     start |-> wrapping_add(start, 1),
     panic |-> overflow_checks /\ start = -1]

RECURSIVE ZipFill(_, _, _, _, _)
\* the loop over (start_addr..).zip(data.iter_mut()): Zip::next takes the
\* next address before it looks for the next byte of data
ZipFill(m, start, left, overflow_checks, data) ==
    LET a == RangeFromNext(start, overflow_checks)
    IN  IF a.panic THEN Panic
        ELSE IF left = 0 THEN Some(data)
        ELSE ZipFill(m, a.start, left - 1, overflow_checks, Append(data, r8(m, a.item)))

\* read_addrs: data filled, Ok(data.len())
read_addrs(m, start_addr, len, overflow_checks) ==
    LET filled == ZipFill(m, start_addr, len, overflow_checks, <<>>)
    IN  IF filled = Panic THEN Panic ELSE Ok("Data", filled.val)

\* write_addrs storing the bytes
write_addrs_store(m, start_addr, data) ==
    [mem |-> [a \in DOMAIN m \cup { wrapping_add(start_addr, i - 1) : i \in 1..Len(data) } |->
                 IF \E i \in 1..Len(data) : a = wrapping_add(start_addr, i - 1)
                 THEN data[CHOOSE i \in 1..Len(data) : a = wrapping_add(start_addr, i - 1)]
                 ELSE m[a]],
     ret |-> Ok("Bool", TRUE)]

write_addrs(m, start_addr, data) == [mem |-> m, ret |-> NonFatal]

\* RiscvRegId: Pc, Gpr(n), and the registers dang does not have
RegPc == [tag |-> "Pc", n |-> 0]
RegGpr(n) == [tag |-> "Gpr", n |-> n]
RegFpr(n) == [tag |-> "Fpr", n |-> n]
RegIds == { RegPc, RegGpr(0), RegGpr(1), RegFpr(0) }

\* read_register: to_be_bytes of the value written to buf
read_register(w, c, reg_id) ==
    IF reg_id.tag = "Pc"
    THEN LET v == get_current_pc(w, c)
         IN  IF v = Panic THEN Panic ELSE Ok("Reg", BeBytes(v.val))
    ELSE IF reg_id.tag = "Gpr"
    THEN LET v == get_current_gpr(w, c, reg_id.n + 1)
         IN  IF v = Panic THEN Panic ELSE Ok("Reg", BeBytes(v.val))
    ELSE NonFatal

write_register(w, c, reg_id) == NonFatal

\* resume and step refuse a signal with a fatal error
resume(mode, signal) ==
    IF signal THEN [exec_mode |-> mode, ret |-> Fatal]
    ELSE [exec_mode |-> ExecContinue, ret |-> Ok("Bool", TRUE)]

single_step(mode, signal) ==
    IF signal THEN [exec_mode |-> mode, ret |-> Fatal]
    ELSE [exec_mode |-> ExecStep, ret |-> Ok("Bool", TRUE)]

reverse_cont(mode) == [exec_mode |-> ExecContinue, ret |-> Ok("Bool", TRUE)]

\* a reverse step that runs on to the next event
reverse_step_cont(mode) == [exec_mode |-> ExecContinue, ret |-> Ok("Bool", TRUE)]

reverse_step(mode) == [exec_mode |-> ExecStep, ret |-> Ok("Bool", TRUE)]

resume_range_step(mode, start, end) ==
    [exec_mode |-> ExecRangeStep(start, end), ret |-> Ok("Bool", TRUE)]

\* a command whose bytes are not UTF-8
InvalidUtf8 == "<0xff>"

MonitorCmds == {"", "time_idx", "help", InvalidUtf8}

\* outputln!: the format string, what fills its {}, and the newline
outputln(fmt, args) == [fmt |-> fmt, args |-> args, newline |-> TRUE]

Canned ==
    "WHAT DID YOU SAY?! SPEAK UP! I WILL CRAWL THROUGH THE TERMINAL :)! I AM JUST BEING SILLY!"

RECURSIVE LowerHex(_)
\* the digits of a number, as "{:x}" formats it
LowerHex(n) ==
    IF n < 16 THEN << n >> ELSE LowerHex(n \div 16) \o << n % 16 >>

\* handle_monitor_cmd printing time_idx in hexadecimal
handle_monitor_cmd_hex(c, cmd) ==
    IF cmd = InvalidUtf8 THEN Ok("Out", outputln("command must be valid UTF-8", <<>>))
    ELSE IF cmd = "" THEN Ok("Out", outputln(Canned, <<>>))
    ELSE IF cmd = "time_idx" THEN Ok("Out", outputln("{}", LowerHex(c.time_idx)))
    ELSE Ok("Out", outputln("I don't know how to handle '{}'", <<cmd>>))

\* handle_monitor_cmd: the line written to the console
handle_monitor_cmd(c, cmd) ==
    IF cmd = InvalidUtf8 THEN Ok("Out", outputln("command must be valid UTF-8", <<>>))
    ELSE IF cmd = "" THEN Ok("Out", outputln(Canned, <<>>))
    ELSE IF cmd = "time_idx" THEN Ok("Out", outputln("{}", Decimal(c.time_idx)))
    ELSE Ok("Out", outputln("I don't know how to handle '{}'", <<cmd>>))

\* A usize is written as the integer of small magnitude congruent to it
\* modulo 2^64, so usize::MAX is -1; a negative integer is a huge usize.
\* a < b and min(a, b) on usize
usize_lt(a, b) ==
    IF (a < 0) = (b < 0) THEN a < b ELSE b < 0
usize_min(a, b) == IF usize_lt(a, b) THEN a ELSE b

\* copy_range_to_buf: the bytes copied into dest, or a panic.  start is
\* below src.len() where start + length is computed, so the sum leaves
\* usize only for a huge length; end - start then wraps below zero
copy_range_to_buf(src, offset, length, dest_len, overflow_checks) ==
    LET start == offset
    IN  IF ~usize_lt(start, Len(src)) THEN Ok("Copied", <<>>)
        ELSE IF overflow_checks /\ length < 0 /\ start + length >= 0 THEN Panic
        ELSE LET end == usize_min(start + length, Len(src))
             IN  IF overflow_checks /\ usize_lt(end, start) THEN Panic
                 ELSE LET copy_len == usize_min(end - start, dest_len)
                      IN  IF usize_lt(Len(src), start + copy_len) THEN Panic
                          ELSE Ok("Copied", SubSeq(src, start + 1, start + copy_len))

get_exec_file(path, offset, length, dest_len, overflow_checks) ==
    copy_range_to_buf(path, offset, length, dest_len, overflow_checks)

\* on_interrupt: the stop reason
on_interrupt == [tag |-> "Stop", reason |-> "SIGINT"]

\* wait_for_stop_reason: the stop reason of an engine event
StopReason(event) == [tag |-> "Stop", reason |-> event]

(***************************************************************************)
(* The server waiting for a command: one action per request.               *)
(***************************************************************************)
engine == << py_signals, waves, cursor, mem, breakpoints, exec_mode, elf_path, first_pc, client, stepper, debugger >>
ghost == << halted, fresh >>
loop == << cycles, polled, since_poll, polls, run_start >>

NoRet == [tag |-> "NoRet"]

\* a handler that returns r, or panics, and changes nothing of the Waver
Reply(r) ==
    /\ ret' = r
    /\ phase' = IF r = Panic THEN "panicked" ELSE "replying"
    /\ stepped' = NoCall
    /\ UNCHANGED << engine, loop, ghost >>

\* the reply or stop reply is written to the connection and the server
\* waits for the next command; the locals of a finished run() are gone
SendReply ==
    /\ phase = "replying"
    /\ phase' = "idle"
    /\ ret' = NoRet
    /\ stepped' = NoCall
    /\ cycles' = 0
    /\ polled' = FALSE
    /\ since_poll' = 0
    /\ polls' = 0
    /\ run_start' = 0
    /\ request' = "" /\ req_args' = <<>>
    /\ UNCHANGED << engine, ghost >>

\* Z0
AddSwBreakpoint(addr) ==
    /\ phase = "idle"
    /\ request' = "Z0" /\ req_args' = <<>>
    /\ Len(breakpoints) < MaxBps
    /\ breakpoints' = add_sw_breakpoint(breakpoints, addr).breakpoints
    /\ ret' = add_sw_breakpoint(breakpoints, addr).ret
    /\ phase' = "replying"
    /\ stepped' = NoCall
    /\ UNCHANGED << py_signals, waves, cursor, mem, exec_mode, elf_path, first_pc, client, stepper, debugger, loop, ghost >>

\* z0
RemoveSwBreakpoint(addr) ==
    /\ phase = "idle"
    /\ request' = "z0" /\ req_args' = <<>>
    /\ breakpoints' = remove_sw_breakpoint(breakpoints, addr).breakpoints
    /\ ret' = remove_sw_breakpoint(breakpoints, addr).ret
    /\ phase' = "replying"
    /\ stepped' = NoCall
    /\ UNCHANGED << py_signals, waves, cursor, mem, exec_mode, elf_path, first_pc, client, stepper, debugger, loop, ghost >>

\* g
ReadRegisters ==
    /\ phase = "idle"
    /\ request' = "g" /\ req_args' = <<>>
    /\ Reply(read_registers(waves, cursor))

\* G
WriteRegisters ==
    /\ phase = "idle"
    /\ request' = "G" /\ req_args' = <<>>
    /\ Reply(write_registers(waves, cursor))

\* p
ReadRegister(reg_id) ==
    /\ phase = "idle"
    /\ request' = "p" /\ req_args' = <<>>
    /\ Reply(read_register(waves, cursor, reg_id))

\* P
WriteRegister(reg_id) ==
    /\ phase = "idle"
    /\ request' = "P" /\ req_args' = <<>>
    /\ Reply(write_register(waves, cursor, reg_id))

\* m
ReadAddrs(start_addr, len, overflow_checks) ==
    /\ phase = "idle"
    /\ request' = "m"
    /\ req_args' = << start_addr, len >>
    /\ Reply(read_addrs(mem, start_addr, len, overflow_checks))

\* M
WriteAddrs(start_addr, data) ==
    /\ phase = "idle"
    /\ request' = "M" /\ req_args' = <<>>
    /\ mem' = write_addrs(mem, start_addr, data).mem
    /\ ret' = write_addrs(mem, start_addr, data).ret
    /\ phase' = "replying"
    /\ stepped' = NoCall
    /\ UNCHANGED << py_signals, waves, cursor, breakpoints, exec_mode, elf_path, first_pc, client, stepper, debugger, loop, ghost >>

\* qRcmd
MonitorCmd(cmd) ==
    /\ phase = "idle"
    /\ request' = "qRcmd"
    /\ req_args' = << cmd >>
    /\ Reply(handle_monitor_cmd(cursor, cmd))

\* qXfer:exec-file:read
ExecFile(offset, length, dest_len, overflow_checks) ==
    /\ phase = "idle"
    /\ request' = "qXfer"
    /\ req_args' = << offset, length, dest_len >>
    /\ Reply(get_exec_file(elf_path, offset, length, dest_len, overflow_checks))

\* a resume handler returned r: the event loop calls run(), or the server
\* ends on the fatal error
Resumed(r) ==
    /\ exec_mode' = r.exec_mode
    /\ ret' = r.ret
    /\ phase' = IF r.ret = Fatal THEN "exited" ELSE "running"
    /\ cycles' = 0
    /\ polled' = FALSE
    /\ since_poll' = 0
    /\ polls' = 0
    /\ run_start' = cursor.time_idx
    /\ stepped' = NoCall
    /\ fresh' = (fresh /\ r.ret = Fatal)
    /\ UNCHANGED << py_signals, waves, cursor, mem, breakpoints, elf_path, first_pc, client, stepper, debugger, halted >>

\* c, C sig
Resume(signal) ==
    phase = "idle" /\ request' = "c" /\ req_args' = <<>> /\ Resumed(resume(exec_mode, signal))

\* s, S sig
SingleStep(signal) ==
    phase = "idle" /\ request' = "s" /\ req_args' = <<>> /\ Resumed(single_step(exec_mode, signal))

\* bc
ReverseCont ==
    phase = "idle" /\ request' = "bc" /\ req_args' = <<>> /\ Resumed(reverse_cont(exec_mode))

\* bs
ReverseStep ==
    phase = "idle" /\ request' = "bs" /\ req_args' = <<>> /\ Resumed(reverse_step(exec_mode))

\* vCont;r
ResumeRangeStep(start, end) ==
    phase = "idle" /\ request' = "vCont;r" /\ req_args' = <<>> /\ Resumed(resume_range_step(exec_mode, start, end))

(***************************************************************************)
(* run(): the loop of the engine, one action per poll and per iteration.   *)
(***************************************************************************)
\* a poll only before the first step
PollDue_once(n) == n = 0

\* the condition of the poll: cycles % 1024 == 0
PollDue(n) == n % PollEvery = 0

\* the range check with the end of the range included
OutOfRange_closed(mode, pc) == ~(mode.start <= pc /\ pc <= mode.end)

\* the range check of RangeStep: !(start..end).contains(pc)
OutOfRange(mode, pc) == ~(mode.start <= pc /\ pc < mode.end)

\* the record of a step() call made at cursor c
Call(c, r) ==
    [tag |-> "Call", from |-> c.time_idx, ret |-> r.ret, tested |-> r.tested,
     after_halt |-> halted]

\* what the engine is left with after a step() call returning r
Stepped(r) ==
    /\ cursor' = [cursor EXCEPT !.time_idx = r.time_idx]
    /\ stepped' = Call(cursor, r)
    /\ halted' = (halted \/ r.ret = Some("Halted"))
    /\ UNCHANGED << py_signals, waves, mem, breakpoints, exec_mode, elf_path, first_pc, client, stepper, debugger, run_start,
                    fresh, request, req_args >>

\* ExecMode::Step: one step, DoneStep unless it raised an event
RunStep ==
    /\ phase = "running"
    /\ exec_mode.tag = "Step"
    /\ \E r \in { step(waves, cursor, breakpoints) } :
           /\ Stepped(r)
           /\ IF r.ret = Panic
              THEN phase' = "panicked" /\ ret' = Panic
              ELSE /\ phase' = "replying"
                   /\ ret' = StopReason(IF IsSome(r.ret) THEN r.ret.val ELSE "DoneStep")
    /\ UNCHANGED << cycles, polled, since_poll, polls >>

\* the poll at the head of an iteration of Continue and RangeStep
RunPoll(incoming) ==
    /\ phase = "running"
    /\ exec_mode.tag \in {"Continue", "RangeStep"}
    /\ PollDue(cycles)
    /\ ~polled
    /\ since_poll' = 0
    /\ polls' = polls + 1
    /\ stepped' = NoCall
    /\ IF incoming
       THEN /\ phase' = "incoming"
            /\ ret' = [tag |-> "IncomingData"]
            /\ polled' = FALSE
       ELSE /\ polled' = TRUE
            /\ UNCHANGED << phase, ret >>
    /\ UNCHANGED << engine, cycles, run_start, ghost, request, req_args >>

\* the rest of an iteration: cycles += 1, step(), the range check
RunIter ==
    /\ phase = "running"
    /\ exec_mode.tag \in {"Continue", "RangeStep"}
    /\ PollDue(cycles) => polled
    /\ cycles' = cycles + 1
    /\ polled' = FALSE
    /\ since_poll' = since_poll + 1
    /\ UNCHANGED polls
    /\ \E r \in { step(waves, cursor, breakpoints) } :
       LET after == [cursor EXCEPT !.time_idx = r.time_idx]
       IN  /\ Stepped(r)
           /\ IF r.ret = Panic
              THEN phase' = "panicked" /\ ret' = Panic
              ELSE IF IsSome(r.ret)
              THEN phase' = "replying" /\ ret' = StopReason(r.ret.val)
              ELSE IF exec_mode.tag = "RangeStep"
                      /\ OutOfRange(exec_mode, get_current_pc(waves, after).val)
              THEN phase' = "replying" /\ ret' = StopReason("DoneStep")
              ELSE UNCHANGED << phase, ret >>

\* the event loop reads the incoming byte: an interrupt stops the target,
\* anything else is handled and run() is entered again
IncomingByte(interrupt) ==
    /\ phase = "incoming"
    /\ stepped' = NoCall
    /\ IF interrupt
       THEN /\ phase' = "replying"
            /\ ret' = on_interrupt
            /\ UNCHANGED loop
       ELSE /\ phase' = "running"
            /\ cycles' = 0
            /\ polled' = FALSE
            /\ since_poll' = 0
            /\ polls' = 0
            /\ run_start' = cursor.time_idx
            /\ UNCHANGED ret
    /\ UNCHANGED << engine, ghost, request, req_args >>

Next ==
    \/ SendReply
    \/ \E addr \in BpAddrs : AddSwBreakpoint(addr)
    \/ \E addr \in BpAddrs : RemoveSwBreakpoint(addr)
    \/ ReadRegisters
    \/ WriteRegisters
    \/ \E reg_id \in RegIds : ReadRegister(reg_id)
    \/ \E reg_id \in RegIds : WriteRegister(reg_id)
    \/ \E a \in ReadStarts, n \in ReadLens, overflow_checks \in BOOLEAN :
          ReadAddrs(a, n, overflow_checks)
    \/ \E a \in ReadStarts : WriteAddrs(a, <<1>>)
    \/ \E cmd \in MonitorCmds : MonitorCmd(cmd)
    \/ \E off \in ExecOffsets, n \in ExecLens, b \in ExecBufLens,
          overflow_checks \in BOOLEAN :
          ExecFile(off, n, b, overflow_checks)
    \/ \E sig \in BOOLEAN : Resume(sig)
    \/ \E sig \in BOOLEAN : SingleStep(sig)
    \/ ReverseCont
    \/ ReverseStep
    \/ \E rg \in Ranges : ResumeRangeStep(rg[1], rg[2])
    \/ RunStep
    \/ \E incoming \in BOOLEAN : RunPoll(incoming)
    \/ RunIter
    \/ \E interrupt \in BOOLEAN : IncomingByte(interrupt)

Spec == Init /\ [][Next]_vars

(***************************************************************************)
(* A long run: a waveform of LongLen change points whose pc alternates,    *)
(* and a debugger that continues, range-steps over the whole program,      *)
(* sends bytes while the target runs, and reads the registers and the      *)
(* time index when it has stopped.                                         *)
(***************************************************************************)
LongPc == [i \in 1..LongLen |-> [t |-> i - 1, v |-> Binary(IF i % 2 = 1 THEN 4 ELSE 8)]]

InitLong ==
    /\ \E m \in MemChoices : NewWaver([ok |-> TRUE, names |-> RequiredNames], LongPc,
                                    [i \in 1..NumGprs |-> Steady], 4, m)
    /\ client = NewClient
    /\ stepper = NewStepper
    /\ debugger = NewDebugger

NextLong ==
    \/ SendReply
    \/ Resume(FALSE)
    \/ ResumeRangeStep(4, 12)
    \/ \E incoming \in BOOLEAN : RunPoll(incoming)
    \/ RunIter
    \/ \E interrupt \in BOOLEAN : IncomingByte(interrupt)
    \/ ReadRegisters
    \/ \E cmd \in MonitorCmds : MonitorCmd(cmd)

SpecLong == InitLong /\ [][NextLong]_vars

(***************************************************************************)
(* Register reads of values of every width: x1 is a signal of one change   *)
(* point carrying a two-state value of width 1..MaxWidth, and the debugger *)
(* reads the registers.                                                    *)
(***************************************************************************)
InitConv ==
    /\ \E sv \in WideVals, m \in MemChoices :
           NewWaver([ok |-> TRUE, names |-> RequiredNames],
                    << [t |-> 0, v |-> Binary(4)] >>,
                    [i \in 1..NumGprs |->
                        IF i = 2 THEN << [t |-> 0, v |-> sv] >> ELSE Steady],
                    4, m)
    /\ client = NewClient
    /\ stepper = NewStepper
    /\ debugger = NewDebugger

NextConv ==
    \/ SendReply
    \/ ReadRegisters
    \/ \E reg_id \in RegIds : ReadRegister(reg_id)

SpecConv == InitConv /\ [][NextConv]_vars

(***************************************************************************)
(* The responses of the server as the client parses them:                  *)
(* GdbResponse::parse_content and its helpers.                             *)
(***************************************************************************)
Star == 42
Comma == 44
MinRepeat == 29

\* b.is_ascii_digit() || (b'a'..=b'f').contains(&b) || (b'A'..=b'F').contains(&b)
is_hex_char(byte) == byte \in 48..57 \/ byte \in 97..102 \/ byte \in 65..70

\* GdbResponse::is_hex_data
is_hex_data(content) ==
    content # <<>> /\ \A i \in 1..Len(content) : is_hex_char(content[i])

\* str::from_utf8 succeeds; the bytes considered are ASCII or 0xff
is_utf8(content) == \A i \in 1..Len(content) : content[i] < 128

RECURSIVE hex_or_run_length_from(_, _)
\* the loop of is_hex_data_or_run_length from the 0-based index i
hex_or_run_length_from(content, i) ==
    IF i >= Len(content) THEN TRUE
    ELSE IF i + 2 < Len(content) /\ content[i + 2] = Star
    THEN /\ is_hex_char(content[i + 1])
         /\ content[i + 3] >= MinRepeat
         /\ hex_or_run_length_from(content, i + 3)
    ELSE /\ is_hex_char(content[i + 1])
         /\ hex_or_run_length_from(content, i + 1)

\* GdbResponse::is_hex_data_or_run_length
is_hex_data_or_run_length(content) ==
    IF content = <<>> THEN FALSE
    ELSE IF is_hex_data(content) THEN TRUE
    ELSE hex_or_run_length_from(content, 0)

RECURSIVE decode_run_length_from(_, _)
\* the loop of decode_run_length from the 0-based index i
decode_run_length_from(data, i) ==
    IF i >= Len(data) THEN <<>>
    ELSE IF i + 2 < Len(data) /\ data[i + 2] = Star /\ data[i + 3] >= MinRepeat
    THEN [k \in 1..(data[i + 3] - MinRepeat + 1) |-> data[i + 1]]
             \o decode_run_length_from(data, i + 3)
    ELSE << data[i + 1] >> \o decode_run_length_from(data, i + 1)

\* the same loop with a repeat count that leaves out the original character
decode_run_length_from_short(data, i) ==
    IF i >= Len(data) THEN <<>>
    ELSE IF i + 2 < Len(data) /\ data[i + 2] = Star /\ data[i + 3] >= MinRepeat
    THEN [k \in 1..(data[i + 3] - MinRepeat) |-> data[i + 1]]
             \o decode_run_length_from(data, i + 3)
    ELSE << data[i + 1] >> \o decode_run_length_from(data, i + 1)

\* decode_run_length with that repeat count for the first run
decode_run_length_short(data) == decode_run_length_from_short(data, 0)

\* GdbResponse::decode_run_length
decode_run_length(data) == decode_run_length_from(data, 0)

RECURSIVE hex_chunks(_)
\* the bytes of the two-character chunks of decode_hex, None when a chunk
\* does not parse
hex_chunks(hex_data) ==
    IF hex_data = <<>> THEN Some(<<>>)
    ELSE LET byte == from_str_radix(SubSeq(hex_data, 1, 2))
             rest == hex_chunks(SubSeq(hex_data, 3, Len(hex_data)))
         IN  IF byte = None \/ rest = None THEN None
             ELSE Some(<< byte.val >> \o rest.val)

\* GdbResponse::decode_hex
decode_hex(hex_data) ==
    IF Len(hex_data) % 2 # 0 THEN ParseError("InvalidHex")
    ELSE IF ~is_utf8(hex_data) THEN ParseError("InvalidHex")
    ELSE IF hex_chunks(hex_data) = None THEN ParseError("InvalidHex")
    ELSE [tag |-> "Ok", val |-> hex_chunks(hex_data).val]

RECURSIVE split(_, _)
\* str::split on a one-byte separator
split(s, sep) ==
    IF \A i \in 1..Len(s) : s[i] # sep THEN << s >>
    ELSE LET at == CHOOSE i \in 1..Len(s) : s[i] = sep /\ \A j \in 1..(i - 1) : s[j] # sep
         IN  << SubSeq(s, 1, at - 1) >> \o split(SubSeq(s, at + 1, Len(s)), sep)

\* str::contains
contains(s, pat) ==
    \E i \in 0..(Len(s) - Len(pat)) : SubSeq(s, i + 1, i + Len(pat)) = pat

\* GdbResponse::looks_like_thread_info
looks_like_thread_info(content) ==
    IF content = <<>> THEN FALSE
    ELSE IF ~is_utf8(content) THEN FALSE
    ELSE \A k \in 1..Len(split(content, Comma)) :
             LET part == split(content, Comma)[k]
             IN  \/ part = << 48 >>
                 \/ part = << NackByte, 49 >>
                 \/ \A i \in 1..Len(part) : is_hex_char(part[i])

RECURSIVE decimal_value(_)
\* the value of a string of decimal digits
decimal_value(digits) ==
    IF digits = <<>> THEN 0
    ELSE decimal_value(SubSeq(digits, 1, Len(digits) - 1)) * 10 + (digits[Len(digits)] - 48)

\* str::parse::<u32>: an optional + sign and decimal digits
parse_u32(s) ==
    LET digits == IF s # <<>> /\ s[1] = AckByte THEN Tail(s) ELSE s
    IN  IF digits = <<>> \/ \E i \in 1..Len(digits) : digits[i] \notin 48..57 THEN None
        ELSE Some(decimal_value(digits))

RECURSIVE thread_ids(_)
\* the loop of parse_thread_info over the tokens
thread_ids(parts) ==
    IF parts = <<>> THEN <<>>
    ELSE (IF parts[1] = << 48 >> THEN << [tag |-> "Any"] >>
          ELSE IF parts[1] = << NackByte, 49 >> THEN << [tag |-> "All"] >>
          ELSE IF parse_u32(parts[1]) # None
               THEN << [tag |-> "Specific", tid |-> parse_u32(parts[1]).val] >>
          ELSE <<>>) \o thread_ids(Tail(parts))

\* GdbResponse::parse_thread_info
parse_thread_info(content, more_data) ==
    IF Len(content) < 2 \/ content[1] # 109 THEN ParseError("InvalidFormat")
    ELSE IF ~is_utf8(Tail(content)) THEN ParseError("InvalidFormat")
    ELSE [tag |-> "ThreadInfo", threads |-> thread_ids(split(Tail(content), Comma)),
          more_data |-> more_data]

\* GdbResponse::parse_stop_reply
parse_stop_reply(content) ==
    IF Len(content) < 3 THEN ParseError("InvalidFormat")
    ELSE IF ~from_utf8(SubSeq(content, 2, 3)) THEN ParseError("InvalidHex")
    ELSE IF from_str_radix(SubSeq(content, 2, 3)) = None THEN ParseError("InvalidHex")
    ELSE [tag |-> "StopReply", signal |-> from_str_radix(SubSeq(content, 2, 3)).val]

\* Packet::is_register_read, is_memory_read, is_monitor_command
is_register_read(packet) == packet.tag = "LowerG"
is_memory_read(packet) == packet.tag = "LowerM"
is_monitor_command(packet) == packet.tag = "QRcmd"

\* parse_content, the monitor branch: the console output
monitor_output(content) ==
    IF content[1] = 79 /\ Len(content) > 1
    THEN IF is_hex_data(Tail(content)) /\ decode_hex(Tail(content)).tag = "Ok"
         THEN decode_hex(Tail(content)).val ELSE content
    ELSE IF is_hex_data(content) /\ decode_hex(content).tag = "Ok"
         THEN decode_hex(content).val ELSE content

\* parse_content, the branch of hex-encoded data
hex_response(content, packet) ==
    LET data == decode_hex(decode_run_length(content))
    IN  IF data.tag # "Ok" THEN data
        ELSE IF is_register_read(packet) THEN [tag |-> "RegisterData", data |-> data.val]
        ELSE IF is_memory_read(packet) THEN [tag |-> "MemoryData", data |-> data.val]
        ELSE IF Len(data.val) >= 128 /\ Len(data.val) % 4 = 0
             THEN [tag |-> "RegisterData", data |-> data.val]
        ELSE [tag |-> "Raw", data |-> data.val]

\* GdbResponse::parse_content
parse_content(raw_resp, packet) ==
    LET content == raw_resp.data
        content_str == IF is_utf8(content) THEN content ELSE <<>>
    IN  IF content = <<>> THEN [tag |-> "Empty"]
        ELSE IF content = << AckByte >> THEN [tag |-> "Ack"]
        ELSE IF content = << NackByte >> THEN [tag |-> "Nack"]
        ELSE IF content = << 79, 75 >> THEN [tag |-> "Ok"]
        ELSE IF Len(content) >= 3 /\ content[1] = 69
        THEN IF ~from_utf8(SubSeq(content, 2, 3)) THEN ParseError("InvalidHex")
             ELSE IF from_str_radix(SubSeq(content, 2, 3)) = None THEN ParseError("InvalidHex")
             ELSE [tag |-> "Error", code |-> from_str_radix(SubSeq(content, 2, 3)).val]
        ELSE IF Len(content) >= 3 /\ (content[1] = 83 \/ content[1] = 84)
        THEN parse_stop_reply(content)
        ELSE IF content[1] = 109
        THEN IF looks_like_thread_info(Tail(content))
             THEN parse_thread_info(content, FALSE)
             ELSE [tag |-> "QXferData", data |-> Tail(content), is_final |-> FALSE]
        ELSE IF content[1] = 108
        THEN IF Len(content) = 1
             THEN [tag |-> "ThreadInfo", threads |-> <<>>, more_data |-> FALSE]
             ELSE [tag |-> "QXferData", data |-> Tail(content), is_final |-> TRUE]
        ELSE IF Len(content) = 2 /\ is_hex_data(content)
        THEN [tag |-> "ThreadInfo", threads |-> <<>>, more_data |-> FALSE]
        ELSE IF \/ contains(content_str, << 80, 97, 99, 107, 101, 116, 83, 105, 122, 101 >>)
                \/ contains(content_str, << 113, 82, 101, 108, 111, 99, 73, 110, 115, 110 >>)
                \/ contains(content_str, << 115, 119, 98, 114, 101, 97, 107 >>)
        THEN [tag |-> "Supported", features |-> split(content_str, 59)]
        ELSE IF is_monitor_command(packet)
        THEN [tag |-> "MonitorOutput", output |-> monitor_output(content)]
        ELSE IF is_hex_data_or_run_length(content) THEN hex_response(content, packet)
        ELSE [tag |-> "Raw", data |-> content]

\* GdbResponse::parse_packet
parse_packet(content, packet) == parse_content(content, packet)

\* GdbResponse::encode_hex: format!("{b:02x}") of every byte
encode_hex(data) ==
    LET hex(d) == IF d < 10 THEN 48 + d ELSE 87 + d
    IN  [i \in 1..(2 * Len(data)) |->
            IF i % 2 = 1 THEN hex(data[(i + 1) \div 2] \div 16) ELSE hex(data[i \div 2] % 16)]

(***************************************************************************)
(* The contents the server may send: register and memory payloads, plain   *)
(* and run-length encoded, thread lists and qXfer chunks, strings with     *)
(* runs, and the short status replies.                                     *)
(***************************************************************************)
MaxData == 2
MaxTail == 3
MaxRun == 4
MinRun == 4

DataBytes == {0, 16, 171}
Datas == UNION { [1..n -> DataBytes] : n \in 0..MaxData }

RECURSIVE RunLen(_)
\* the number of leading bytes of s that equal its first byte
RunLen(s) ==
    IF Len(s) >= 2 /\ s[2] = s[1] THEN 1 + RunLen(Tail(s)) ELSE 1

RECURSIVE Rle(_)
\* the run-length encoding a server produces: every run of MinRun or more
\* equal characters becomes the character, * and the count byte
Rle(s) ==
    IF s = <<>> THEN <<>>
    ELSE IF RunLen(s) >= MinRun
    THEN << s[1], Star, MinRepeat + RunLen(s) - 1 >> \o Rle(SubSeq(s, RunLen(s) + 1, Len(s)))
    ELSE << s[1] >> \o Rle(Tail(s))

HexContents == { encode_hex(d) : d \in Datas } \cup { Rle(encode_hex(d)) : d \in Datas }
TailBytes == {48, 49, NackByte, Comma, 97, 120}
ListContents ==
    { << lead >> \o t : lead \in {109, 108},
                        t \in UNION { [1..n -> TailBytes] : n \in 0..MaxTail } }
RunBytes == {48, 97, Star, 32, 28}
RunContents == UNION { [1..n -> RunBytes] : n \in 0..MaxRun }
StatusContents == { << 79, 75 >>, << 69, 48, 49 >>, << 83, 48, 53 >>, << AckByte >> }
ResponseContents == HexContents \cup ListContents \cup RunContents \cup StatusContents
\* the commands whose responses are parsed
ParsedCommands == { [tag |-> "LowerG"], [tag |-> "LowerM", addr |-> 0, length |-> MaxData],
                    [tag |-> "QRcmd"], [tag |-> "QfThreadInfo"] }

(***************************************************************************)
(* The command packets of the client: PacketCursor and to_cmd.             *)
(***************************************************************************)
MaxAddr == 17
MaxLength == 8

\* PacketCursor::new
NewCursor == [buf |-> <<>>, sum |-> 0]

RECURSIVE SumBytes(_)
\* buf.iter().fold(0u64, |a, b| a.add(*b as u64))
SumBytes(buf) == IF buf = <<>> THEN 0 ELSE buf[1] + SumBytes(Tail(buf))

\* PacketCursor::write: the bytes are written and added to the sum
write(cur, buf) == [buf |-> cur.buf \o buf, sum |-> cur.sum + SumBytes(buf)]

\* PacketCursor::write_content: content bytes, which the checksum covers
write_content(cur, buf) == write(cur, buf)

\* format!("{:x}", n): the lower-case hexadecimal digits of n, unpadded
format_x(n) ==
    LET digits == LowerHex(n)
    IN  [i \in 1..Len(digits) |-> IF digits[i] < 10 THEN 48 + digits[i] ELSE 87 + digits[i]]

\* PacketCursor::finish: "#" and the sum modulo 256 formatted with {:x}
finish(cur) ==
    LET modsum == cur.sum % 256
    IN  cur.buf \o << Hash >> \o format_x(modsum)

\* Base::base_str and Resume::base_str
base_str(cmd) ==
    CASE cmd.tag = "QuestionMark" -> << 63 >>
      [] cmd.tag = "LowerG" -> << 103 >>
      [] cmd.tag = "K" -> << 107 >>
      [] cmd.tag = "LowerM" -> << 109 >>
      [] cmd.tag = "QSupported" -> << 113, 83, 117, 112, 112, 111, 114, 116, 101, 100 >>
      [] cmd.tag = "QStartNoAckMode" -> << 81, 83, 116, 97, 114, 116, 78, 111, 65, 99, 107, 77, 111, 100, 101 >>
      [] cmd.tag = "QXferExecFile" -> << 113, 88, 102, 101, 114, 58, 101, 120, 101, 99, 45, 102, 105, 108, 101, 58, 114, 101, 97, 100 >>
      [] cmd.tag = "Step" -> << 115 >>
      [] cmd.tag = "Continue" -> << 99 >>

\* Base::to_cmd and Resume::to_cmd
to_cmd(cmd) ==
    LET pc == write_content(write(NewCursor, << Dollar >>), base_str(cmd))
    IN  finish(CASE cmd.tag = "QSupported" ->
                        write_content(pc, << 58, 120, 109, 108, 82, 101, 103, 105, 115, 116, 101, 114, 115, 61, 114, 105, 115, 99, 118 >>)
                 [] cmd.tag = "LowerM" ->
                        write_content(pc, format_x(cmd.addr) \o << 44 >> \o format_x(cmd.length))
                 [] cmd.tag = "QXferExecFile" ->
                        write_content(pc, << 58, 58 >> \o format_x(cmd.offset) \o << 44 >>
                                                  \o format_x(cmd.length))
                 [] OTHER -> pc)

\* the commands the client builds
Commands ==
    { [tag |-> t] : t \in {"QuestionMark", "LowerG", "K", "QSupported", "QStartNoAckMode",
                           "Step", "Continue"} }
    \cup { [tag |-> "LowerM", addr |-> a, length |-> l] : a \in 0..MaxAddr, l \in 0..MaxLength }
    \cup { [tag |-> "QXferExecFile", offset |-> o, length |-> l] :
               o \in 0..MaxLength, l \in 0..MaxLength }

(***************************************************************************)
(* The client.  The server side stands still while the client works.       *)
(***************************************************************************)
server == << py_signals, waves, cursor, mem, breakpoints, exec_mode, elf_path, first_pc, phase,
             cycles, polled, since_poll, polls, run_start, stepped, halted, fresh, request,
             req_args, ret >>

InitServer ==
    \E m \in MemChoices : NewWaver([ok |-> TRUE, names |-> RequiredNames],
                                 << [t |-> 0, v |-> Binary(4)] >>,
                                 [i \in 1..NumGprs |-> Steady], 4, m)

\* read_gdb_packet returns: the response of the command in flight
Return(c, response) ==
    [c EXCEPT !.responses = Append(@, response), !.reading = FALSE]

\* read_gdb_packet once the buffer holds `buffer`: the first complete
\* packet is returned and the rest kept, or the read loop goes on
TryExtract(c, buffer) ==
    LET first == find_first_complete_packet(buffer)
    IN  IF IsSome(first)
        THEN Return([c EXCEPT !.response_buffer = first.val.remaining],
                    [tag |-> "Ok", val |-> first.val.found])
        ELSE [c EXCEPT !.response_buffer = buffer, !.reading = TRUE]

\* send_command: the packet is written, the server's reply is on its way,
\* and read_gdb_packet first looks at what is already buffered
SendCommand(reply) ==
    /\ ~client.reading
    /\ Len(client.replies) < MaxCmds
    /\ client' = TryExtract([client EXCEPT !.replies = Append(@, reply),
                                           !.strm = @ \o reply],
                            client.response_buffer)
    /\ UNCHANGED << server, stepper, debugger >>

\* read_gdb_packet, strm.read returns Ok(n)
StreamRead(n) ==
    /\ client.reading
    /\ n \in 1..Len(client.strm)
    /\ client' = TryExtract([client EXCEPT !.strm = Slice(@, n, Len(@))],
                            client.response_buffer \o Slice(client.strm, 0, n))
    /\ UNCHANGED << server, stepper, debugger >>

\* read_gdb_packet, the overall timeout has passed with no complete packet
ReadTimeout ==
    /\ client.reading
    /\ client.strm = <<>>
    /\ client' = IF client.response_buffer # <<>>
                 THEN Return([client EXCEPT !.response_buffer = <<>>],
                             [tag |-> "Ok", val |-> client.response_buffer])
                 ELSE Return(client, [tag |-> "Err", val |-> "TimedOut"])
    /\ UNCHANGED << server, stepper, debugger >>

InitClient == InitServer /\ client = NewClient /\ stepper = NewStepper /\ debugger = NewDebugger

NextClient ==
    \/ \E reply \in Replies : SendCommand(reply)
    \/ \E n \in 1..(MaxCmds * MaxReply) : StreamRead(n)
    \/ ReadTimeout

SpecClient == InitClient /\ [][NextClient]_vars

(***************************************************************************)
(* The monitor exchange: the server answers a qRcmd with console output    *)
(* packets `O<hex>` and a final `OK`; the client sends the monitor command *)
(* first and another command after it.                                     *)
(***************************************************************************)
\* a packet with the checksum field of its content
Packet(content) == Frame(content, encode_hex(<< actual_checksum(content) >>))

\* the console outputs of the server: "0\n", "1\n" and "10\n"
ConsoleOutputs == { << 48, 10 >>, << 49, 10 >>, << 49, 48, 10 >> }

\* what the server writes for a monitor command that prints output
MonitorReply(output) == Packet(<< 79 >> \o encode_hex(output)) \o OkPacket

\* the replies to the command that follows
NextReplies == { OkPacket, Packet(<<>>), Packet(<< 48, 48 >>) }

\* Client::drain_response_buffer
drain_response_buffer(c) == [c EXCEPT !.response_buffer = <<>>]

\* Client::send_monitor_command after send_command has returned response
send_monitor_command(response) ==
    IF response.tag = "Err" THEN response
    ELSE LET parsed == parse_packet(RawGdbResponse(response.val, 0), [tag |-> "QRcmd"])
         IN  IF parsed.tag = "MonitorOutput" THEN [tag |-> "Ok", val |-> parsed.output]
             ELSE [tag |-> "Err", val |-> "Expected monitor output"]

\* send_monitor_command up to the read of the response
SendMonitorCommand(output) ==
    /\ ~client.reading
    /\ client.replies = <<>>
    /\ client' = TryExtract([drain_response_buffer(client) EXCEPT
                                 !.command = Some([tag |-> "QRcmd"]),
                                 !.replies = Append(@, MonitorReply(output)),
                                 !.strm = @ \o MonitorReply(output)],
                            <<>>)
    /\ UNCHANGED << server, stepper, debugger >>

NextMonitor ==
    \/ \E output \in ConsoleOutputs : SendMonitorCommand(output)
    \/ \E reply \in NextReplies : client.replies # <<>> /\ SendCommand(reply)
    \/ \E n \in 1..(MaxCmds * MaxReply) : StreamRead(n)
    \/ ReadTimeout

SpecMonitor == InitClient /\ [][NextMonitor]_vars

(***************************************************************************)
(* The packet functions applied to every packet, alone and followed by     *)
(* more bytes.                                                             *)
(***************************************************************************)
FindPacketData ==
    /\ client.raw = None
    /\ client' = [client EXCEPT !.raw = Some(find_packet_data(client.packet))]
    /\ UNCHANGED << server, stepper, debugger >>

ValidateGdbResponse ==
    /\ client.valid = None
    /\ client' = [client EXCEPT !.valid = Some(validate_gdb_response(client.packet))]
    /\ UNCHANGED << server, stepper, debugger >>

FindFirstCompletePacket ==
    /\ client.first = None
    /\ client' = [client EXCEPT
                      !.first = Some(find_first_complete_packet(client.packet \o client.trailing))]
    /\ UNCHANGED << server, stepper, debugger >>

InitPacket ==
    /\ InitServer
    /\ stepper = NewStepper
    /\ debugger = NewDebugger
    /\ \E packet \in Framed \cup Acks, trailing \in Trailings :
          client = [NewClient EXCEPT !.packet = packet, !.trailing = trailing]

NextPacket ==
    \/ FindPacketData
    \/ ValidateGdbResponse
    \/ FindFirstCompletePacket

SpecPacket == InitPacket /\ [][NextPacket]_vars

(***************************************************************************)
(* The command packets: every command is built into packet_scratch.        *)
(***************************************************************************)
\* Packet::to_finished_packet of the command
ToFinishedPacket ==
    /\ client.command # None
    /\ client.pkt = None
    /\ client' = [client EXCEPT !.pkt = Some(to_cmd(client.command.val))]
    /\ UNCHANGED << server, stepper, debugger >>

InitCommand ==
    /\ InitServer
    /\ stepper = NewStepper
    /\ debugger = NewDebugger
    /\ \E cmd \in Commands : client = [NewClient EXCEPT !.command = Some(cmd)]

NextCommand == ToFinishedPacket

SpecCommand == InitCommand /\ [][NextCommand]_vars

(***************************************************************************)
(* The responses: every content is parsed as the response to a command.    *)
(***************************************************************************)
\* send_command_parsed: the response found is parsed for the command
ParsePacket ==
    /\ client.command # None /\ client.raw # None
    /\ client.parsed = None
    /\ client' = [client EXCEPT !.parsed = Some(parse_packet(client.raw.val, client.command.val))]
    /\ UNCHANGED << server, stepper, debugger >>

\* decode_run_length on the content
DecodeRunLength ==
    /\ client.raw # None
    /\ client.decoded = None
    /\ client' = [client EXCEPT !.decoded = Some(decode_run_length(client.raw.val.data))]
    /\ UNCHANGED << server, stepper, debugger >>

InitParse ==
    /\ InitServer
    /\ stepper = NewStepper
    /\ debugger = NewDebugger
    /\ \E cmd \in ParsedCommands, content \in ResponseContents :
          client = [NewClient EXCEPT !.command = Some(cmd),
                                     !.raw = Some(RawGdbResponse(content, 4))]

NextParse ==
    \/ ParsePacket
    \/ DecodeRunLength

SpecParse == InitParse /\ [][NextParse]_vars

(***************************************************************************)
(* The source-line stepper (addr2line_stepper.rs).  A line table is the    *)
(* sequence of the rows of the line program, in the order the program      *)
(* emits them: [address, path, line].  A path is the sequence of its       *)
(* components, "/" first when it is absolute.                              *)
(***************************************************************************)
saturating_sub(a, b) == IF a < b THEN 0 ELSE a - b

\* u64::saturating_add, for operands whose sum stays below 2^64
saturating_add(a, b) == a + b

\* Path::is_absolute
is_absolute(path) == path # <<>> /\ path[1] = "/"

\* Path::ends_with: the components of child are the last ones of path
ends_with(path, child) ==
    /\ Len(child) <= Len(path)
    /\ SubSeq(path, Len(path) - Len(child) + 1, Len(path)) = child

\* Context::find_location: the row that covers the address is the last
\* row emitted at the greatest row address not above it
find_location(rows, file_addr) ==
    LET below == { i \in 1..Len(rows) : rows[i].address <= file_addr }
    IN  IF below = {} THEN None
        ELSE LET top  == CHOOSE a \in { rows[i].address : i \in below } :
                             \A i \in below : rows[i].address <= a
                 last == CHOOSE i \in below :
                             /\ rows[i].address = top
                             /\ \A j \in below : rows[j].address = top => j <= i
             IN  Some([path |-> rows[last].path, line |-> rows[last].line])

\* Addr2lineStepper::map_addr
map_addr(st, runtime_addr) ==
    find_location(st.rows, saturating_sub(runtime_addr, st.load_bias))

\* Addr2lineStepper::current_line, without the text of the line
current_line(st, runtime_pc) == map_addr(st, runtime_pc)

\* Addr2lineStepper::find_addresses_for_line
find_addresses_for_line(st, file_path, target_line) ==
    LET matches(i) ==
            /\ st.rows[i].line = target_line
            /\ \/ is_absolute(file_path) /\ st.rows[i].path = file_path
               \/ ~is_absolute(file_path) /\ ends_with(st.rows[i].path, file_path)
        addrs == { saturating_add(st.rows[i].address, st.load_bias) :
                       i \in { j \in 1..Len(st.rows) : matches(j) } }
    IN  SortedSeq(addrs)

RECURSIVE next_lines_loop(_, _, _, _, _, _)
\* the loop of next_lines_from_instructions over next_instr_addrs[i..]
next_lines_loop(st, cur, addrs, n, out, last_emitted) ==
    IF addrs = <<>> THEN out
    ELSE LET loc  == map_addr(st, Head(addrs))
             rest == Tail(addrs)
         IN  IF loc = None
                 THEN next_lines_loop(st, cur, rest, n, out, last_emitted)
             ELSE IF cur # None /\ last_emitted = None /\ loc.val = cur.val
                 THEN next_lines_loop(st, cur, rest, n, out, last_emitted)
             ELSE IF last_emitted # None /\ loc.val = last_emitted.val
                 THEN next_lines_loop(st, cur, rest, n, out, last_emitted)
             ELSE IF Len(out) + 1 = n
                 THEN Append(out, loc.val)
             ELSE next_lines_loop(st, cur, rest, n, Append(out, loc.val), loc)

\* Addr2lineStepper::next_lines_from_instructions
next_lines_from_instructions(st, runtime_pc, next_instr_addrs, n) ==
    IF n = 0 THEN <<>>
    ELSE next_lines_loop(st, map_addr(st, runtime_pc), next_instr_addrs, n, <<>>, None)

\* the line tables, queries and instruction addresses the model draws from
MaxRows == 3
MaxLine == 2
MaxN == 2
InstrLen == 4
RowAddrs == { InstrLen * k : k \in 0..(MaxRows - 1) }
RowPaths == { << "/", "src", "a.c" >>, << "/", "src", "b.c" >> }
LoadBiases == { 0, InstrLen * MaxRows }
LineRows == [address : RowAddrs, path : RowPaths, line : 1..MaxLine]
LineTables ==
    { t \in UNION { [1..k -> LineRows] : k \in 1..MaxRows } :
          \A i \in 1..(Len(t) - 1) : t[i].address <= t[i + 1].address }
QueryPaths == { << "a.c" >>, << "src", "a.c" >>, << "/", "src", "b.c" >> }
\* the k instruction addresses that follow pc
UpcomingAddrs(pc, k) == [i \in 1..k |-> pc + InstrLen * i]

(***************************************************************************)
(* The stepper: every query is made of every line table.                   *)
(***************************************************************************)
\* a call of find_addresses_for_line
FindAddressesForLine ==
    \E file_path \in QueryPaths, target_line \in 1..MaxLine :
        /\ stepper' = [stepper EXCEPT !.call =
               Some([op |-> "find_addresses_for_line",
                     file_path |-> file_path, target_line |-> target_line,
                     result |-> find_addresses_for_line(stepper, file_path, target_line)])]
        /\ UNCHANGED << server, client, debugger >>

\* a call of next_lines_from_instructions with the addresses after pc
NextLinesFromInstructions ==
    \E pc \in { a + stepper.load_bias : a \in RowAddrs }, k \in 0..(MaxRows - 1), n \in 0..MaxN :
        /\ stepper' = [stepper EXCEPT !.call =
               Some([op |-> "next_lines_from_instructions",
                     runtime_pc |-> pc, next_instr_addrs |-> UpcomingAddrs(pc, k), n |-> n,
                     result |-> next_lines_from_instructions(stepper, pc, UpcomingAddrs(pc, k), n)])]
        /\ UNCHANGED << server, client, debugger >>

InitLines ==
    /\ InitServer
    /\ client = NewClient
    /\ debugger = NewDebugger
    /\ \E rows \in LineTables, load_bias \in LoadBiases :
          stepper = Addr2lineStepper_new(rows, load_bias)

NextLines ==
    \/ FindAddressesForLine
    \/ NextLinesFromInstructions

SpecLines == InitLines /\ [][NextLines]_vars

(***************************************************************************)
(* The instructions at the PC (Client::get_current_and_next_inst).  The    *)
(* decoder is the one of the raki library: of the bytes fetched the model  *)
(* keeps, for every offset the loop can reach, whether the 16-bit decode   *)
(* of the two bytes there and the 32-bit decode of the four bytes there    *)
(* succeed, and the low two bits of the 16-bit word.                       *)
(***************************************************************************)
FetchLen == 12
Offsets == { o \in 0..(FetchLen - 5) : o % 2 = 0 }
\* low11: the low two bits of the 16-bit word at the offset are 11
Decodes == [Offsets -> [u16 : BOOLEAN, u32 : BOOLEAN, low11 : BOOLEAN]]
PcChoices == { 0, 256 }

\* Instruction(val, pc.add(start)): the width of the instruction and its PC
Instruction(width, pc) == [width |-> width, pc |-> pc]

\* the call as its loop is entered: start = 0 and rv empty
EnterDecode(pc, instruction_bytes) ==
    [pc |-> pc, instruction_bytes |-> instruction_bytes, start |-> 0, rv |-> <<>>,
     at |-> "loop", result |-> None]

\* one iteration of `while start + 4 < 12`
DecodeIteration ==
    /\ client.inst # None
    /\ client.inst.val.at = "loop"
    /\ client.inst.val.start + 4 < FetchLen
    /\ LET inst == client.inst.val
           dec  == inst.instruction_bytes[inst.start]
       IN  client' = [client EXCEPT !.inst = Some(
               IF dec.u16 /\ ~dec.u32
                   THEN [inst EXCEPT !.start = @ + 2,
                                     !.rv = Append(@, Instruction(2, inst.pc + inst.start))]
               ELSE IF ~dec.u16 /\ dec.u32
                   THEN [inst EXCEPT !.start = @ + 4,
                                     !.rv = Append(@, Instruction(4, inst.pc + inst.start))]
               ELSE IF inst.start = 0
                   THEN [inst EXCEPT !.at = "panicked"]
               ELSE inst)]
    /\ UNCHANGED << server, stepper, debugger >>

\* the loop condition fails: Ok(rv)
DecodeReturn ==
    /\ client.inst # None
    /\ client.inst.val.at = "loop"
    /\ ~(client.inst.val.start + 4 < FetchLen)
    /\ client' = [client EXCEPT !.inst = Some([client.inst.val EXCEPT
                      !.at = "returned",
                      !.result = Some([tag |-> "Ok", val |-> client.inst.val.rv])])]
    /\ UNCHANGED << server, stepper, debugger >>

InitDecode ==
    /\ InitServer
    /\ stepper = NewStepper
    /\ debugger = NewDebugger
    /\ \E pc \in PcChoices, instruction_bytes \in Decodes :
          client = [NewClient EXCEPT !.inst = Some(EnterDecode(pc, instruction_bytes))]

NextDecode ==
    \/ DecodeIteration
    \/ DecodeReturn

SpecDecode == InitDecode /\ [][NextDecode]_vars

\* the thread that runs the call is scheduled as long as it can take a step
SpecDecodeLive == SpecDecode /\ WF_vars(NextDecode)

(***************************************************************************)
(* The symbols of the ELF (Client::find_symbol_at_address).  A symbol is   *)
(* [addr, size]; parse_elf_file keeps the symbols whose address is not 0   *)
(* and sorts them by address.                                              *)
(***************************************************************************)
\* the closure handed to binary_search_by
symbol_ordering(addr, sym) ==
    IF addr < sym.addr THEN "Greater"
    ELSE IF addr >= sym.addr + sym.size /\ sym.size > 0 THEN "Less"
    ELSE IF addr >= sym.addr /\ (sym.size = 0 \/ addr < sym.addr + sym.size) THEN "Equal"
    ELSE "Less"

RECURSIVE binary_search_halving(_, _, _, _)
\* slice::binary_search_by as the standard library has it since 1.82:
\* the range is halved down to one element, which is compared last
binary_search_halving(symbols, addr, base, size) ==
    IF size > 1
        THEN LET half == size \div 2
                 mid  == base + half
             IN  binary_search_halving(symbols, addr,
                     IF symbol_ordering(addr, symbols[mid + 1]) = "Greater" THEN base ELSE mid,
                     size - half)
    ELSE LET cmp == symbol_ordering(addr, symbols[base + 1])
         IN  IF cmp = "Equal" THEN [tag |-> "Ok", val |-> base]
             ELSE [tag |-> "Err", val |-> base + (IF cmp = "Less" THEN 1 ELSE 0)]

RECURSIVE binary_search_early(_, _, _, _)
\* slice::binary_search_by as the standard library had it before 1.82:
\* the first element met that compares Equal is returned
binary_search_early(symbols, addr, left, right) ==
    IF left < right
        THEN LET mid == left + (right - left) \div 2
                 cmp == symbol_ordering(addr, symbols[mid + 1])
             IN  IF cmp = "Less" THEN binary_search_early(symbols, addr, mid + 1, right)
                 ELSE IF cmp = "Greater" THEN binary_search_early(symbols, addr, left, mid)
                 ELSE [tag |-> "Ok", val |-> mid]
    ELSE [tag |-> "Err", val |-> left]

\* which of the matching elements binary_search_by returns is left to the
\* standard library the client is built with
binary_search_by(symbols, addr, early_return) ==
    IF symbols = <<>> THEN [tag |-> "Err", val |-> 0]
    ELSE IF early_return THEN binary_search_early(symbols, addr, 0, Len(symbols))
    ELSE binary_search_halving(symbols, addr, 0, Len(symbols))

\* Client::find_symbol_at_address; idx is the element the returned
\* reference points to (0-based)
find_symbol_at_address(elf_info, addr, early_return) ==
    IF elf_info = None THEN None
    ELSE LET symbols == elf_info.val.symbols
             found   == binary_search_by(symbols, addr, early_return)
         IN  IF found.tag = "Ok"
                 THEN Some([idx |-> found.val, offset |-> addr - symbols[found.val + 1].addr])
             ELSE IF found.val > 0
                 THEN IF addr >= symbols[found.val].addr
                          THEN Some([idx |-> found.val - 1,
                                     offset |-> addr - symbols[found.val].addr])
                      ELSE None
             ELSE None

\* the symbol arrays and addresses the model draws from
MaxSyms == 3
MaxSymAddr == 6
MaxSymSize == 4
SymAddrs == { a \in 1..MaxSymAddr : a % 2 = 0 }
SymSizes == { z \in 0..MaxSymSize : z % 2 = 0 }
Symbols == [addr : SymAddrs, size : SymSizes]
SymbolArrays ==
    { t \in UNION { [1..k -> Symbols] : k \in 0..MaxSyms } :
          \A i \in 1..(Len(t) - 1) : t[i].addr <= t[i + 1].addr }

\* parse_elf_file, as far as the symbols go
parse_elf_file(symbols) == Some([symbols |-> symbols])

\* a call of find_symbol_at_address
FindSymbolAtAddress ==
    \E addr \in 0..(MaxSymAddr + MaxSymSize + 1), early_return \in BOOLEAN :
        /\ client.elf_info # None
        /\ client' = [client EXCEPT !.sym =
               Some([addr |-> addr,
                     result |-> find_symbol_at_address(client.elf_info, addr, early_return)])]
        /\ UNCHANGED << server, stepper, debugger >>

InitSymbols ==
    /\ InitServer
    /\ stepper = NewStepper
    /\ debugger = NewDebugger
    /\ \E symbols \in SymbolArrays :
          client = [NewClient EXCEPT !.elf_info = parse_elf_file(symbols)]

NextSymbols == FindSymbolAtAddress

SpecSymbols == InitSymbols /\ [][NextSymbols]_vars

(***************************************************************************)
(* The debugger model of the TUI (jpdb/src/model.rs) in front of the       *)
(* server.  A call that needs the server leaves the model at the call      *)
(* (`at`) until the reply is there; the reply is read while the server is  *)
(* still at "replying".  The exchange itself is Client's: what comes back  *)
(* is the stop reply or console output of the server, or a failure.        *)
(***************************************************************************)
Terminated == "Process has terminated"

\* the call that returned: its name, its result, whether a command went
\* to the server and whether the time index came from the cache
CallReturned(op, result, sent, hit) ==
    Some([op |-> op, result |-> result, sent |-> sent, hit |-> hit])

\* Client::step and Client::continue_execution: Ok(still_alive) from the
\* stop reply of the server, Err when the exchange fails
still_alive(reply, fails) ==
    IF fails \/ reply = Panic \/ reply.tag # "Stop" THEN Err("exchange failed")
    ELSE [tag |-> "Ok", val |-> reply.reason # "Halted"]

\* DebuggerModel::invalidate_time_index
invalidate_time_index(d) == [d EXCEPT !.cached_time_idx = None]

\* DebuggerModel::step that goes on after the target has ended
DebuggerModel_step_on(d, alive) ==
    IF alive.tag = "Err" THEN [model |-> d, result |-> alive]
    ELSE IF ~alive.val
        THEN [model |-> d, result |-> Err(Terminated)]
    ELSE [model |-> invalidate_time_index(d), result |-> [tag |-> "Ok"]]

\* DebuggerModel::step after the terminated test, client.step() having
\* returned alive
DebuggerModel_step(d, alive) ==
    IF alive.tag = "Err" THEN [model |-> d, result |-> alive]
    ELSE IF ~alive.val
        THEN [model |-> [d EXCEPT !.terminated = TRUE], result |-> Err(Terminated)]
    ELSE [model |-> invalidate_time_index(d), result |-> [tag |-> "Ok"]]

\* DebuggerModel::continue_execution after the terminated test
DebuggerModel_continue_execution(d, alive) ==
    IF alive.tag = "Err" THEN [model |-> d, result |-> alive]
    ELSE IF ~alive.val
        THEN [model |-> [d EXCEPT !.terminated = TRUE], result |-> Err(Terminated)]
    ELSE [model |-> invalidate_time_index(d), result |-> [tag |-> "Ok"]]

RECURSIVE DigitsValue(_)
\* str::parse::<u64> of the decimal digits
DigitsValue(digits) ==
    IF digits = <<>> THEN 0
    ELSE 10 * DigitsValue(SubSeq(digits, 1, Len(digits) - 1)) + digits[Len(digits)]

\* Client::get_time_idx: the number the monitor command printed
client_get_time_idx(reply, fails) ==
    IF fails \/ reply = Panic \/ reply.tag # "Ok" \/ reply.kind # "Out"
        THEN Err("exchange failed")
    ELSE [tag |-> "Ok", val |-> DigitsValue(reply.val.args)]

\* DebuggerModel::get_time_index on a cache miss, the client having
\* returned idx
get_time_index(d, idx) ==
    IF idx.tag = "Err" THEN [model |-> d, result |-> idx]
    ELSE [model |-> [d EXCEPT !.cached_time_idx = Some(idx.val)], result |-> idx]

\* the snapshot of a terminated model
TerminatedSnapshot == [tag |-> "Ok", lines |-> << Terminated >>]
\* a snapshot read from the target; its lines are not modelled
LiveSnapshot == [tag |-> "Ok", lines |-> << "live" >>]

\* the model returns from a call without the server
ModelReturns(d, op, result, hit) ==
    /\ debugger' = [d EXCEPT !.at = "idle", !.last = CallReturned(op, result, FALSE, hit)]
    /\ UNCHANGED << server, client, stepper >>

\* the model sends the command of the call and waits for the reply
ModelCalls(op) ==
    /\ debugger' = [debugger EXCEPT !.at = op, !.last = None]
    /\ UNCHANGED << server, client, stepper >>

\* DebuggerModel::step up to client.step()
ModelStep ==
    /\ debugger.at = "idle" /\ phase = "idle"
    /\ IF debugger.terminated
       THEN ModelReturns(debugger, "step", Err(Terminated), FALSE)
       ELSE ModelCalls("step")

\* DebuggerModel::continue_execution up to client.continue_execution()
ModelContinue ==
    /\ debugger.at = "idle" /\ phase = "idle"
    /\ IF debugger.terminated
       THEN ModelReturns(debugger, "continue_execution", Err(Terminated), FALSE)
       ELSE ModelCalls("continue_execution")

\* DebuggerModel::get_time_idx up to client.get_time_idx()
ModelGetTimeIdx ==
    /\ debugger.at = "idle" /\ phase = "idle"
    /\ IF debugger.cached_time_idx # None
       THEN ModelReturns(debugger, "get_time_idx",
                         [tag |-> "Ok", val |-> debugger.cached_time_idx.val], TRUE)
       ELSE ModelCalls("get_time_idx")

\* DebuggerModel::fetch_execution_snapshot and fetch_source_snapshot
FetchSnapshot(op) ==
    /\ debugger.at = "idle" /\ phase = "idle"
    /\ ModelReturns(debugger, op,
                    IF debugger.terminated THEN TerminatedSnapshot ELSE LiveSnapshot, FALSE)

\* DebuggerModel::fetch_signal_snapshot up to client.get_time_idx()
FetchSignalSnapshot(wave_tracker) ==
    /\ debugger.at = "idle" /\ phase = "idle"
    /\ IF debugger.terminated
           THEN ModelReturns(debugger, "fetch_signal_snapshot", TerminatedSnapshot, FALSE)
       ELSE IF ~wave_tracker
           THEN ModelReturns(debugger, "fetch_signal_snapshot",
                             [tag |-> "Ok", lines |-> << "no waves found" >>], FALSE)
       ELSE IF debugger.cached_time_idx # None
           THEN ModelReturns(debugger, "fetch_signal_snapshot", LiveSnapshot, TRUE)
       ELSE ModelCalls("fetch_signal_snapshot")

\* the reply of the server reaches the model, or the exchange fails, and
\* the call returns
ModelReplied(fails) ==
    /\ debugger.at # "idle"
    /\ phase \in {"replying", "panicked"}
    /\ LET op == debugger.at
           r  == IF op = "step"
                     THEN DebuggerModel_step(debugger, still_alive(ret, fails))
                 ELSE IF op = "continue_execution"
                     THEN DebuggerModel_continue_execution(debugger, still_alive(ret, fails))
                 ELSE get_time_index(debugger, client_get_time_idx(ret, fails))
           result == IF op = "fetch_signal_snapshot" /\ r.result.tag = "Ok"
                         THEN LiveSnapshot ELSE r.result
       IN  debugger' = [r.model EXCEPT !.at = "idle",
                                       !.last = CallReturned(op, result, TRUE, FALSE)]
    /\ UNCHANGED << server, client, stepper >>

\* the server reads the command of the call the model is in
ServeCall ==
    \/ debugger.at = "step" /\ SingleStep(FALSE)
    \/ debugger.at = "continue_execution" /\ Resume(FALSE)
    \/ debugger.at \in {"get_time_idx", "fetch_signal_snapshot"} /\ MonitorCmd("time_idx")

\* DebuggerModel::set_breakpoint
SetBreakpoint(address) == debugger.at = "idle" /\ AddSwBreakpoint(address)

\* the waveforms the debugger is run on
DebuggedPcSignals == PcSignals

InitDebugger ==
    /\ \E pc \in DebuggedPcSignals, fpc \in PcVals, m \in MemChoices :
           NewWaver([ok |-> TRUE, names |-> RequiredNames], pc,
                    [i \in 1..NumGprs |-> Steady], fpc, m)
    /\ client = NewClient
    /\ stepper = NewStepper
    /\ debugger = NewDebugger

NextDebugger ==
    \/ ModelStep
    \/ ModelContinue
    \/ ModelGetTimeIdx
    \/ \E op \in {"fetch_execution_snapshot", "fetch_source_snapshot"} : FetchSnapshot(op)
    \/ \E wave_tracker \in BOOLEAN : FetchSignalSnapshot(wave_tracker)
    \/ \E fails \in BOOLEAN : ModelReplied(fails)
    \/ ServeCall
    \/ \E address \in BpAddrs : SetBreakpoint(address)
    \/ RunStep
    \/ RunPoll(FALSE)
    \/ RunIter
    \/ debugger.at = "idle" /\ SendReply

SpecDebugger == InitDebugger /\ [][NextDebugger]_vars

(***************************************************************************)
(* Properties.                                                             *)
(***************************************************************************)
\* the server process is alive
Live == phase \in {"idle", "replying", "running", "incoming"}

InBreakpoints(pc) == \E i \in 1..Len(breakpoints) : breakpoints[i] = pc

\* the elements of a sequence
Range(seq) == { seq[i] : i \in 1..Len(seq) }

\* the pc at the cursor, and at the cursor the last step() call started from
PcNow == get_current_pc(waves, cursor)
PcBefore == get_current_pc(waves, [cursor EXCEPT !.time_idx = stepped.from])

\* C1: in every state of a live engine cursor.time_idx is an element of
\* cursor.all_changes and the pc at time_idx converts to a 32-bit value.
C1_CursorInvariant ==
    Live => /\ cursor.time_idx \in Range(cursor.all_changes)
            /\ IsSome(PcNow)

\* C2: right after construction the cursor is at a change point whose pc
\* is the first PC: find_idx(first_pc) is a time index i with
\* get_val(i) = first_pc, and the first g read reports PC = first_pc.
C2_FirstPcAtCursor ==
    (fresh /\ Live) =>
        /\ \E i \in 1..Len(waves.pc) :
              /\ waves.pc[i].t = cursor.time_idx
              /\ try_from_signal(waves.pc[i].v) = Some(first_pc)
              /\ \A j \in 1..(i - 1) : try_from_signal(waves.pc[j].v) # Some(first_pc)
        /\ PcNow = Some(first_pc)
        /\ (ret.tag = "Ok" /\ ret.kind = "Regs") => ret.val.pc = first_pc

\* C3: a step() call that returns: Break exactly when the cursor moved to
\* a change point whose pc differs from the pc before the call and is in
\* breakpoints; no event exactly when it moved to a different pc that is
\* not in breakpoints; unless it returns Halted the pc after the call
\* differs from the pc before and is the pc looked up in breakpoints.
C3_StepEvent ==
    (stepped.tag = "Call" /\ stepped.ret # Panic) =>
        LET moved == cursor.time_idx # stepped.from
            arrived == moved /\ IsSome(PcNow) /\ PcNow # PcBefore
        IN  /\ (stepped.ret = Some("Break")) <=> (arrived /\ InBreakpoints(PcNow.val))
            /\ (stepped.ret = None) <=> (arrived /\ ~InBreakpoints(PcNow.val))
            /\ (stepped.ret # Some("Halted")) =>
                   (PcNow # PcBefore /\ stepped.tested = PcNow)

\* a step returned no event although the pc it left is a breakpoint
C3_Witness ==
    /\ stepped.tag = "Call"
    /\ stepped.ret = None
    /\ InBreakpoints(PcBefore.val)

\* the change points of the pc signal after time index lo, up to hi
Arrivals(lo, hi) ==
    { i \in 1..Len(waves.pc) : lo < waves.pc[i].t /\ waves.pc[i].t <= hi }

ArrivalPc(i) == try_from_signal(waves.pc[i].v)

\* run() has returned the stop event ev
Returned(ev) == phase = "replying" /\ ret = StopReason(ev)

\* the trace made no progress in the last step(): no next change point,
\* or the same pc again
NoProgress ==
    /\ stepped.tag = "Call"
    /\ \/ ~IsSome(try_get_next_val(waves.pc, stepped.from))
       \/ PcNow = PcBefore

\* C4: in Continue mode run() passes no change point whose pc is a
\* breakpoint: while it runs, no pc it arrived at since it was entered is
\* in breakpoints; it returns Break at a pc in breakpoints with no
\* breakpoint passed before; it returns Halted only when the trace made
\* no progress, with no breakpoint passed before.
C4_ContinueToBreakpoint ==
    exec_mode.tag = "Continue" =>
        /\ phase = "running" =>
               \A i \in Arrivals(run_start, cursor.time_idx) :
                   IsSome(ArrivalPc(i)) /\ ~InBreakpoints(ArrivalPc(i).val)
        /\ Returned("Break") =>
               /\ InBreakpoints(PcNow.val)
               /\ \A i \in Arrivals(run_start, cursor.time_idx - 1) :
                      ~InBreakpoints(ArrivalPc(i).val)
        /\ Returned("Halted") =>
               /\ NoProgress
               /\ \A i \in Arrivals(run_start, cursor.time_idx - 1) :
                      ~InBreakpoints(ArrivalPc(i).val)
        /\ ~Returned("DoneStep")

\* a continue that passed a pc that is no breakpoint and stopped at the
\* next one, which is
C4_Witness ==
    /\ exec_mode.tag = "Continue"
    /\ Returned("Break")
    /\ Cardinality(Arrivals(run_start, cursor.time_idx)) >= 2

\* C5: once a step() call has returned Halted, every later step() call
\* that returns, returns Halted.
C5_HaltedAbsorbing ==
    (stepped.tag = "Call" /\ stepped.after_halt /\ stepped.ret # Panic) =>
        stepped.ret = Some("Halted")

InRange(pc) == exec_mode.start <= pc /\ pc < exec_mode.end

\* C6: in RangeStep mode run() keeps stepping while every pc it arrived
\* at is inside [start, end); it returns DoneStep at the first step that
\* raised no event and left the pc outside the range; a Break or Halted
\* of a step is returned whatever the range check would say.
C6_RangeStep ==
    exec_mode.tag = "RangeStep" =>
        /\ phase = "running" =>
               \A i \in Arrivals(run_start, cursor.time_idx) :
                   /\ IsSome(ArrivalPc(i))
                   /\ InRange(ArrivalPc(i).val)
                   /\ ~InBreakpoints(ArrivalPc(i).val)
        /\ Returned("DoneStep") =>
               /\ stepped.tag = "Call" /\ stepped.ret = None
               /\ ~InRange(PcNow.val)
               /\ \A i \in Arrivals(run_start, cursor.time_idx - 1) :
                      InRange(ArrivalPc(i).val)
        /\ Returned("Break") => stepped.ret = Some("Break") /\ InBreakpoints(PcNow.val)
        /\ Returned("Halted") => stepped.ret = Some("Halted") /\ NoProgress

\* a range step that stayed inside the range for a step and then left it
C6_Witness ==
    /\ exec_mode.tag = "RangeStep"
    /\ Returned("DoneStep")
    /\ cycles >= 2

\* C7: in Continue and RangeStep modes run() polls before its first step
\* and never takes more than 1024 steps without polling again; when a poll
\* finds incoming data run() returns IncomingData with no step taken
\* since that poll.
C7_PollEvery1024 ==
    /\ since_poll <= PollEvery
    /\ (phase = "running" /\ exec_mode.tag # "Step" /\ cycles >= 1) => polls >= 1
    /\ phase = "incoming" =>
           /\ ret = [tag |-> "IncomingData"]
           /\ since_poll = 0
           /\ stepped = NoCall

\* a byte sent during a run is found by the second poll, 1024 steps after
\* the first
C7_Witness ==
    /\ phase = "incoming"
    /\ polls = 2
    /\ cycles = PollEvery

\* C8: time_idx never decreases, a step that finds a next change point of
\* the pc signal strictly increases it, and bs and bc leave the server in
\* the state s and c leave it in, so the run that follows is the same.
C8_ForwardOnly ==
    [][ /\ cursor'.time_idx >= cursor.time_idx
        /\ ( /\ RunStep \/ RunIter
             /\ get_current_pc(waves, cursor) # Panic
             /\ IsSome(try_get_next_val(waves.pc, cursor.time_idx)) )
               => cursor'.time_idx > cursor.time_idx
        /\ ReverseStep =>
               /\ exec_mode' = single_step(exec_mode, FALSE).exec_mode
               /\ ret' = single_step(exec_mode, FALSE).ret
               /\ phase' = "running"
        /\ ReverseCont =>
               /\ exec_mode' = resume(exec_mode, FALSE).exec_mode
               /\ ret' = resume(exec_mode, FALSE).ret
               /\ phase' = "running"
        /\ (request = "bs" /\ phase = "running") => (RunStep /\ ~RunIter)
        /\ (request = "bc" /\ phase = "running") => (RunPoll(TRUE) \/ RunPoll(FALSE) \/ RunIter)
      ]_vars

\* a reverse step has moved the cursor forward
C8_Witness ==
    /\ request = "bs"
    /\ phase = "replying"
    /\ stepped.tag = "Call"
    /\ cursor.time_idx > stepped.from

\* C9: breakpoints holds no address twice.
C9_NoDuplicateBreakpoints ==
    \A i, j \in 1..Len(breakpoints) : i # j => breakpoints[i] # breakpoints[j]

\* C10: G, P and M return an error; they and g, p, m, qRcmd and qXfer leave
\* time_idx, memory, breakpoints and exec_mode alone; time_idx changes only
\* in a step of run(), breakpoints only in Z0 and z0, exec_mode only in the
\* resume handlers, and memory never.
C10_ReadOnlyTarget ==
    [][ /\ (phase = "idle" /\ request' \in {"G", "P", "M"}) => ret' = NonFatal
        /\ (phase = "idle"
              /\ request' \in {"g", "G", "p", "P", "m", "M", "qRcmd", "qXfer"}) =>
               /\ cursor'.time_idx = cursor.time_idx
               /\ mem' = mem
               /\ breakpoints' = breakpoints
               /\ exec_mode' = exec_mode
        /\ mem' = mem
        /\ cursor'.time_idx # cursor.time_idx =>
               (phase = "running" /\ stepped'.tag = "Call")
        /\ breakpoints' # breakpoints =>
               (phase = "idle" /\ request' \in {"Z0", "z0"})
        /\ exec_mode' # exec_mode =>
               (phase = "idle" /\ request' \in {"c", "s", "bc", "bs", "vCont;r"})
      ]_vars

\* a memory write has been refused
C10_Witness ==
    /\ request = "M"
    /\ phase = "replying"
    /\ ret = NonFatal

\* C11: once construction has succeeded no step(), run(), register read
\* or memory read aborts the server.
C11_NoAbortAfterConstruction == phase # "panicked"

\* C12: a waveform whose pc signal has no change point is constructed and
\* its first step reports Halted.
C12_EmptyTraceHalted ==
    waves.pc = <<>> =>
        /\ phase # "aborted"
        /\ (stepped.tag = "Call" /\ fresh) => stepped.ret = Some("Halted")

\* C13: when the map of the signal-map script lacks pc or a register,
\* construction returns an error value that lists the missing names.
C13_MissingSignalsReported ==
    (py_signals.ok /\ RequiredNames \ py_signals.names # {}) =>
        /\ phase = "failed"
        /\ ret.tag = "Err"
        /\ \A n \in RequiredNames \ py_signals.names :
              \E i \in 1..Len(ret.msg) : ret.msg[i] = n

\* the low 32 bits of a big-endian byte string, as a u32
Low32(bytes) ==
    LET n == Len(bytes)
    IN  from_be_bytes([i \in 1..U32Bytes |->
                          IF n - U32Bytes + i >= 1 THEN bytes[n - U32Bytes + i] ELSE 0])

\* C14: a register whose value is a two-state value of any declared width
\* reads as the big-endian value of its bits modulo 2^32.
C14_ConversionModulo ==
    (request = "g" /\ phase \in {"replying", "panicked"}) =>
        /\ ret.tag = "Ok"
        /\ ret.val.x[2] = Low32(waves.gprs[2][1].v.bytes)

\* C15: a memory read of len bytes from start_addr returns exactly len
\* bytes, byte i being the loaded byte at address start_addr + i modulo
\* 2^32, or 0 where nothing was loaded.
C15_ReadAddrs ==
    (request = "m" /\ phase \in {"replying", "panicked"}) =>
        /\ ret.tag = "Ok"
        /\ Len(ret.val) = req_args[2]
        /\ \A i \in 1..req_args[2] :
              LET addr == wrapping_add(req_args[1], i - 1)
              IN  ret.val[i] = IF addr \in DOMAIN mem THEN mem[addr] ELSE 0

RECURSIVE ParseDecimal(_)
\* the number a sequence of decimal digits writes
ParseDecimal(digits) ==
    IF Len(digits) = 1 THEN digits[1]
    ELSE 10 * ParseDecimal(SubSeq(digits, 1, Len(digits) - 1)) + digits[Len(digits)]

\* C16: monitor time_idx prints the decimal digits of cursor.time_idx and a
\* newline, an empty command prints the canned message, any other text
\* prints "I don't know how to handle '<cmd>'"; the index printed is that
\* of the cursor a g read at the same point takes its pc from.
C16_MonitorTimeIdx ==
    /\ (request = "qRcmd" /\ phase = "replying") =>
           LET cmd == req_args[1]
               out == ret.val
           IN  /\ ret.tag = "Ok"
               /\ out.newline
               /\ cmd = "time_idx" =>
                      /\ out.fmt = "{}"
                      /\ \A i \in 1..Len(out.args) : out.args[i] \in 0..9
                      /\ Len(out.args) > 1 => out.args[1] # 0
                      /\ ParseDecimal(out.args) = cursor.time_idx
               /\ cmd = "" => (out.fmt = Canned /\ out.args = <<>>)
               /\ cmd \notin {"", "time_idx", InvalidUtf8} =>
                      (out.fmt = "I don't know how to handle '{}'" /\ out.args = <<cmd>>)
    /\ (request = "g" /\ phase = "replying") =>
           ret.val.pc = from_signal(get_val(waves.pc, cursor.time_idx).val).val

\* the time index printed after a run of more than 1024 steps
C16_Witness ==
    /\ request = "qRcmd"
    /\ phase = "replying"
    /\ req_args = << "time_idx" >>
    /\ cursor.time_idx > PollEvery

RECURSIVE ReadChunks(_, _, _, _)
\* the bytes a debugger gets that reads the exec file in successive
\* chunks from offset until a chunk is empty
ReadChunks(path, offset, length, dest_len) ==
    LET chunk == get_exec_file(path, offset, length, dest_len, TRUE)
    IN  IF chunk = Panic THEN << "panic" >>
        ELSE IF chunk.val = <<>> THEN <<>>
        ELSE chunk.val \o ReadChunks(path, offset + Len(chunk.val), length, dest_len)

\* C17: an exec-file read returns the bytes of the path string from offset
\* up to the least of offset + length, the length of the path and offset +
\* the length of the buffer, nothing when offset is not below the length
\* of the path; successive chunks put together give the path.
C17_ExecFileChunk ==
    /\ (request = "qXfer" /\ phase \in {"replying", "panicked"}) =>
           LET offset == req_args[1]
               length == req_args[2]
               dest_len == req_args[3]
               n == Len(elf_path)
               by_buf == IF offset + dest_len < n THEN offset + dest_len ELSE n
               end == IF length >= 0 /\ offset + length < by_buf
                      THEN offset + length ELSE by_buf
           IN  /\ ret.tag = "Ok"
               /\ ret.val = IF offset >= n THEN <<>> ELSE SubSeq(elf_path, offset + 1, end)
    /\ \A length \in 1..4, dest_len \in 1..4 :
           ReadChunks(elf_path, 0, length, dest_len) = elf_path

(***************************************************************************)
(* The client's packets.                                                   *)
(***************************************************************************)
\* the content and the checksum field of the framed packet under test
ContentOf(p) == Slice(p, 1, Len(p) - 3)
FieldOf(p) == Slice(p, Len(p) - 2, Len(p))
\* the checksum field is the two-hex-digit value of the sum of the content
ChecksumOk(p) == IsHexOf(FieldOf(p), actual_checksum(ContentOf(p)))

\* C18: a framed packet $C#HH is accepted (find_packet_data returns C,
\* validate_gdb_response returns true) exactly when HH is the two-hex-digit
\* value of the sum of the bytes of C modulo 256, every other checksum
\* field is rejected with InvalidChecksum, and a single + or - is accepted.
C18_ChecksumAccepted ==
    LET p == client.packet
    IN  /\ (p \in Framed /\ client.raw # None) =>
               /\ (client.raw.val = RawGdbResponse(ContentOf(p), 4)) <=> ChecksumOk(p)
               /\ ~ChecksumOk(p) => client.raw.val = ParseError("InvalidChecksum")
        /\ (p \in Framed /\ client.valid # None) => (client.valid.val <=> ChecksumOk(p))
        /\ (p \in Acks /\ client.raw # None) => client.raw.val = RawGdbResponse(p, 0)
        /\ (p \in Acks /\ client.valid # None) => client.valid.val

\* C19: the first complete packet of the buffer P \o T, for a complete
\* packet P (a single + or -, or a framed packet with a valid checksum) and
\* any bytes T, is P, the rest of the buffer is T, and entire_packet_len
\* of what find_packet_data found in P is the length of P.
C19_ExtractFirstPacket ==
    LET p == client.packet
    IN  (p \in Acks \/ ChecksumOk(p)) =>
            /\ client.first # None =>
                   client.first.val = Some([found |-> p, remaining |-> client.trailing])
            /\ client.raw # None =>
                   /\ client.raw.val.tag = "Ok"
                   /\ entire_packet_len(client.raw.val) = Len(p)

\* C20: when the reply of the server to a command is an ack byte + followed
\* by a framed packet, the response the client returns for that same
\* command is the framed packet.
C20_LeadingAckConsumed ==
    \A k \in 1..Len(client.responses) :
        LET reply == client.replies[k]
        IN  (Len(reply) > 1 /\ reply[1] = AckByte /\ reply[2] = Dollar) =>
                client.responses[k] = [tag |-> "Ok", val |-> Tail(reply)]

StartsWith(seq, prefix) ==
    Len(seq) >= Len(prefix) /\ SubSeq(seq, 1, Len(prefix)) = prefix

\* C21: when the first framed packet the client receives fails checksum
\* validation, the read returns a parse error for that packet and removes
\* exactly the bytes of that packet, so that what followed it is still
\* there for the next read.
C21_BadChecksumDiscarded ==
    (Len(client.responses) >= 1 /\ StartsWith(client.replies[1], BadPacket)) =>
        /\ client.responses[1] = [tag |-> "Err", val |-> "InvalidChecksum"]
        /\ (Len(client.responses) = 1 /\ Len(client.replies) = 1) =>
               client.response_buffer \o client.strm
                   = Slice(client.replies[1], Len(BadPacket), Len(client.replies[1]))

\* C22: when the overall read timeout expires while the buffer holds bytes
\* that form no complete packet, the read reports TimedOut.
C22_TimeoutReported ==
    [][(client.reading /\ client.strm = <<>> /\ client.response_buffer # <<>>
            /\ ~client'.reading) =>
          client'.responses[Len(client'.responses)] = [tag |-> "Err", val |-> "TimedOut"]]_vars

\* the content of a command: its name and its arguments in hexadecimal
Content(cmd) ==
    base_str(cmd) \o
    (CASE cmd.tag = "QSupported" -> << 58, 120, 109, 108, 82, 101, 103, 105, 115, 116, 101, 114, 115, 61, 114, 105, 115, 99, 118 >>
       [] cmd.tag = "LowerM" -> format_x(cmd.addr) \o << 44 >> \o format_x(cmd.length)
       [] cmd.tag = "QXferExecFile" ->
              << 58, 58 >> \o format_x(cmd.offset) \o << 44 >> \o format_x(cmd.length)
       [] OTHER -> <<>>)

\* C23: every command packet is $, the content, # and exactly two
\* hexadecimal digits whose value is the sum of the bytes of the content
\* modulo 256.
C23_CommandChecksum ==
    client.pkt # None =>
        LET content == Content(client.command.val)
            p == client.pkt.val
        IN  /\ Len(p) = Len(content) + 4
            /\ Slice(p, 0, Len(content) + 2) = << Dollar >> \o content \o << Hash >>
            /\ IsHexOf(Slice(p, Len(content) + 2, Len(p)), actual_checksum(content))

(***************************************************************************)
(* The client's responses.                                                 *)
(***************************************************************************)
\* C24: the response to g whose content is the hex encoding of a non-empty
\* byte sequence D parses as RegisterData carrying D, whatever the length
\* of D, and an empty content parses as Empty.
C24_RegisterData ==
    (client.parsed # None /\ is_register_read(client.command.val)) =>
        \A d \in Datas :
            client.raw.val.data = encode_hex(d) =>
                client.parsed.val = IF d = <<>> THEN [tag |-> "Empty"]
                                    ELSE [tag |-> "RegisterData", data |-> d]

\* C25: the response to m whose content is the hex encoding of a byte
\* sequence D of any length, run-length encoded or not, parses as
\* MemoryData carrying D, the empty sequence included.
C25_MemoryData ==
    (client.parsed # None /\ is_memory_read(client.command.val)) =>
        \A d \in Datas :
            client.raw.val.data \in { encode_hex(d), Rle(encode_hex(d)) } =>
                client.parsed.val = [tag |-> "MemoryData", data |-> d]

\* a token of a thread list: 0, -1 or hexadecimal digits
IsThreadToken(part) ==
    \/ part = << 48 >>
    \/ part = << NackByte, 49 >>
    \/ part # <<>> /\ \A i \in 1..Len(part) : is_hex_char(part[i])

\* C26: a content that starts with m parses as ThreadInfo when every
\* comma-separated token of the rest is 0, -1 or made of hex digits, and
\* otherwise as QXferData with is_final false carrying the rest; the
\* content l is ThreadInfo with no thread and no more data; l followed by
\* data is QXferData with is_final true carrying the data.
C26_ThreadInfoOrQXfer ==
    client.parsed # None =>
        LET content == client.raw.val.data
            rest == Tail(content)
            parts == split(rest, Comma)
        IN  /\ (content # <<>> /\ content[1] = 109) =>
                   IF \A k \in 1..Len(parts) : IsThreadToken(parts[k])
                   THEN client.parsed.val.tag = "ThreadInfo"
                   ELSE client.parsed.val = [tag |-> "QXferData", data |-> rest,
                                             is_final |-> FALSE]
            /\ content = << 108 >> =>
                   client.parsed.val = [tag |-> "ThreadInfo", threads |-> <<>>,
                                        more_data |-> FALSE]
            /\ (Len(content) > 1 /\ content[1] = 108) =>
                   client.parsed.val = [tag |-> "QXferData", data |-> rest, is_final |-> TRUE]

\* the positions of * in a string
Stars(data) == { i \in 1..Len(data) : data[i] = Star }

\* C27: decode_run_length is the identity on a string without *; in a
\* string whose only * follows a character c and precedes a count byte n
\* of 29 or more, the run c*n becomes c and n - 29 more copies of c and
\* the other bytes stay in place; 0*<space> decodes to 0000; and a register
\* or memory payload is run-length decoded before it is hex decoded.
C27_RunLength ==
    /\ client.decoded # None =>
           LET data == client.raw.val.data
               out == client.decoded.val
           IN  /\ Stars(data) = {} => out = data
               /\ \A p \in 2..(Len(data) - 1) :
                      (Stars(data) = {p} /\ data[p + 1] >= MinRepeat) =>
                          out = SubSeq(data, 1, p - 2)
                                \o [k \in 1..(data[p + 1] - MinRepeat + 1) |-> data[p - 1]]
                                \o SubSeq(data, p + 2, Len(data))
               /\ data = << 48, Star, 32 >> => out = << 48, 48, 48, 48 >>
    /\ (client.parsed # None /\ client.command.val.tag \in {"LowerG", "LowerM"}) =>
           \A d \in Datas :
               (client.raw.val.data = Rle(encode_hex(d)) /\ Stars(client.raw.val.data) # {}) =>
                   /\ client.parsed.val.tag \in {"RegisterData", "MemoryData"}
                   /\ client.parsed.val.data = d

\* C27 witness: a string with a run has been decoded, and a run-length
\* encoded memory payload has been parsed
C27_Witness ==
    /\ client.decoded # None /\ client.parsed # None
    /\ client.raw.val.data = << 48, Star, 32 >>
    /\ client.decoded.val = << 48, 48, 48, 48 >>
    /\ client.command.val.tag = "LowerM"

\* C28: every address find_addresses_for_line returns for a (file, line)
\* pair of the line table has a current line whose path ends with the file
\* and whose line is the line asked for, and the addresses returned are in
\* ascending order without duplicates.
C28_AddressesRoundTrip ==
    (stepper.call # None /\ stepper.call.val.op = "find_addresses_for_line") =>
        LET call  == stepper.call.val
            addrs == call.result
        IN  /\ \A i \in 1..Len(addrs) :
                   LET src == current_line(stepper, addrs[i])
                   IN  /\ src # None
                       /\ ends_with(src.val.path, call.file_path)
                       /\ src.val.line = call.target_line
            /\ \A i \in 1..(Len(addrs) - 1) : addrs[i] < addrs[i + 1]

\* the source lines the addresses of a sequence map to, in order
RECURSIVE MappedLines(_, _)
MappedLines(st, addrs) ==
    IF addrs = <<>> THEN <<>>
    ELSE LET loc == map_addr(st, Head(addrs))
         IN  (IF loc = None THEN <<>> ELSE << loc.val >>) \o MappedLines(st, Tail(addrs))

\* a is b with some of its elements left out
RECURSIVE IsSubsequence(_, _)
IsSubsequence(a, b) ==
    IF a = <<>> THEN TRUE
    ELSE IF b = <<>> THEN FALSE
    ELSE IF Head(a) = Head(b) THEN IsSubsequence(Tail(a), Tail(b))
    ELSE IsSubsequence(a, Tail(b))

\* C29: next_lines_from_instructions returns at most n source lines, none
\* when n = 0, in the order their addresses are met; no (file, line) pair
\* is returned twice and none is the current line of pc.
C29_NextLinesUnique ==
    (stepper.call # None /\ stepper.call.val.op = "next_lines_from_instructions") =>
        LET call == stepper.call.val
            out  == call.result
            cur  == current_line(stepper, call.runtime_pc)
        IN  /\ Len(out) <= call.n
            /\ IsSubsequence(out, MappedLines(stepper, call.next_instr_addrs))
            /\ \A i, j \in 1..Len(out) : out[i] = out[j] => i = j
            /\ \A i \in 1..Len(out) : cur # None => out[i] # cur.val

\* C30: decoding the fetched bytes always terminates: the call returns an
\* error when the decode fails at offset 0, and returns the instructions
\* decoded so far when it fails at a later offset.
C30_DecodeTerminates ==
    <>(/\ client.inst # None
       /\ client.inst.val.at = "returned"
       /\ LET inst == client.inst.val
              dec  == inst.instruction_bytes[0]
          IN  IF dec.u16 = dec.u32
                  THEN inst.result.val.tag = "Err"
                  ELSE inst.result.val = [tag |-> "Ok", val |-> inst.rv])

\* C31: at each decode offset, when exactly one of the two decodes succeeds
\* that instruction is emitted and the offset advances by 2 or 4; when both
\* succeed exactly one instruction is emitted, the 32-bit one (advance 4)
\* if the low two bits of the 16-bit word are not 11, else the 16-bit one
\* (advance 2).
C31_DecodePrecedence ==
    [][(/\ client.inst # None
        /\ client.inst.val.at = "loop"
        /\ client.inst.val.start + 4 < FetchLen) =>
          LET inst  == client.inst.val
              after == client'.inst.val
              dec   == inst.instruction_bytes[inst.start]
              emits(width) ==
                  /\ after.start = inst.start + width
                  /\ after.rv = Append(inst.rv, Instruction(width, inst.pc + inst.start))
          IN  /\ (dec.u16 /\ ~dec.u32) => emits(2)
              /\ (~dec.u16 /\ dec.u32) => emits(4)
              /\ (dec.u16 /\ dec.u32 /\ ~dec.low11) => emits(4)
              /\ (dec.u16 /\ dec.u32 /\ dec.low11) => emits(2)]_vars

\* addr lies in the symbol at index i (1-based) of the array: within
\* [addr, addr + size), or the symbol has size 0 and addr is at or above it
\* and below the address of the next symbol
SymbolCovers(symbols, i, addr) ==
    \/ /\ symbols[i].addr <= addr
       /\ addr < symbols[i].addr + symbols[i].size
    \/ /\ symbols[i].size = 0
       /\ symbols[i].addr <= addr
       /\ i < Len(symbols) => addr < symbols[i + 1].addr

\* C32: find_symbol_at_address(addr) returns a symbol S, with the offset
\* addr - S.addr, only if addr lies in S or S has size 0 and addr is below
\* the next symbol; and it returns such a symbol whenever one exists.
C32_SymbolAtAddress ==
    (client.elf_info # None /\ client.sym # None) =>
        LET symbols == client.elf_info.val.symbols
            addr    == client.sym.val.addr
            result  == client.sym.val.result
        IN  /\ result # None =>
                   /\ SymbolCovers(symbols, result.val.idx + 1, addr)
                   /\ result.val.offset = addr - symbols[result.val.idx + 1].addr
            /\ (\E i \in 1..Len(symbols) : SymbolCovers(symbols, i, addr)) => result # None

ResumeOps == {"step", "continue_execution"}
SnapshotOps == {"fetch_execution_snapshot", "fetch_source_snapshot", "fetch_signal_snapshot"}

\* C33: once a step or continue reports that the target is no longer
\* alive the terminated flag is set and never cleared; every later step or
\* continue is rejected with "Process has terminated" without a command
\* to the server, and every snapshot shows "Process has terminated".
C33_TerminatedSticks ==
    [][/\ (/\ debugger.at \in ResumeOps
           /\ debugger'.at = "idle"
           /\ still_alive(ret, FALSE) = [tag |-> "Ok", val |-> FALSE]
           /\ debugger'.last.val.result # Err("exchange failed")) =>
              /\ debugger'.terminated
              /\ debugger'.last.val.result = Err(Terminated)
       /\ debugger.terminated =>
              /\ debugger'.terminated
              /\ debugger'.at \notin ResumeOps
              /\ (debugger' # debugger /\ debugger'.last # None) =>
                     LET l == debugger'.last.val
                     IN  /\ l.op \in ResumeOps => (l.result = Err(Terminated) /\ ~l.sent)
                         /\ l.op \in SnapshotOps => l.result = TerminatedSnapshot]_vars

\* C33: a step is rejected after the target has ended, and the breakpoints
\* and the server are as the ending step left them
C33_Witness ==
    /\ debugger.terminated
    /\ debugger.last = CallReturned("step", Err(Terminated), FALSE, FALSE)
    /\ phase = "idle"
    /\ halted

\* C38: a time index get_time_idx returns from the cache is the server's
\* cursor.time_idx: every step or continue that can move the cursor, also
\* one that ends in termination or in an error, invalidates the cache.
C38_CacheIsCurrent ==
    (/\ debugger.last # None
     /\ debugger.last.val.op = "get_time_idx"
     /\ debugger.last.val.hit) =>
        debugger.last.val.result.val = cursor.time_idx

\* C34: for every waveform, set of breakpoints, ExecMode and poll function
\* run() returns after finitely many steps: each step moves time_idx to a
\* later change point of the pc signal or reports Halted, so the steps of
\* one run() are at most the change points and the run ends by returning.
C34_RunReturns ==
    [][(phase = "running" /\ stepped'.tag = "Call") =>
          /\ phase' \in {"running", "replying"}
          /\ cycles' <= Len(cursor.all_changes)
          /\ \/ cursor'.time_idx > cursor.time_idx
             \/ stepped'.ret = Some("Halted")]_vars

\* how many entries of the breakpoint list are the address
EntriesOf(bps, addr) == Cardinality({ i \in 1..Len(bps) : bps[i] = addr })

\* C35: after a z0 for address A has been answered OK, A is no longer a
\* breakpoint, however many Z0 requests for A came before, so a following
\* continue cannot stop with Break at A; a z0 for an address that is not
\* set leaves the breakpoints unchanged and is not answered OK.
C35_RemovedIsGone ==
    [][(phase = "idle" /\ request' = "z0") =>
          IF ret' = Ok("Bool", TRUE)
          THEN \E addr \in BpAddrs :
                   /\ EntriesOf(breakpoints, addr) > 0
                   /\ EntriesOf(breakpoints', addr) = 0
                   /\ \A other \in BpAddrs \ {addr} :
                          EntriesOf(breakpoints', other) = EntriesOf(breakpoints, other)
          ELSE breakpoints' = breakpoints]_vars

\* the console output the server sent in reply to the monitor command
OutputOf(reply) ==
    decode_hex(Slice(reply, 2, Len(reply) - Len(OkPacket) - 3)).val

\* C36: after send_monitor_command returns, the whole reply to the qRcmd
\* (the `O<hex>` packet and the final `OK`) has been consumed and the
\* string returned is the decoded console output; the response returned
\* for the next command is the server's reply to that command.
C36_MonitorConsumed ==
    (/\ client.command = Some([tag |-> "QRcmd"])
     /\ Len(client.responses) >= 1
     /\ send_monitor_command(client.responses[1]).tag = "Ok") =>
        /\ send_monitor_command(client.responses[1]).val = OutputOf(client.replies[1])
        /\ (Len(client.replies) = 1) =>
               client.response_buffer \o client.strm = <<>>
        /\ (Len(client.responses) = 2 /\ client.responses[2].tag = "Ok") =>
               client.responses[2].val \in
                   { client.replies[2], ContentOf(client.replies[2]) }

\* u32::to_le_bytes
LeBytes(x) ==
    << x % 256, (x \div 256) % 256, (x \div 65536) % 256, (x \div 16777216) % 256 >>

\* the bytes of the `g` reply: x0.. in order and then pc, each register
\* least significant byte first
gdb_serialize(regs) ==
    [k \in 1..(U32Bytes * (Len(regs.x) + 1)) |->
        LET r == (k - 1) \div U32Bytes
            v == IF r < Len(regs.x) THEN regs.x[r + 1] ELSE regs.pc
        IN  LeBytes(v)[((k - 1) % U32Bytes) + 1]]

\* the four bytes of one register inside the `g` reply
RegisterOfG(g, reg_id) ==
    LET r == IF reg_id.tag = "Pc" THEN (Len(g) \div U32Bytes) - 1 ELSE reg_id.n
    IN  Slice(g, U32Bytes * r, U32Bytes * (r + 1))

\* C37: for every register and every cursor position the four bytes a
\* single-register read p<n> returns are the same bytes in the same order
\* as the four bytes of that register inside the `g` reply.
C37_RegisterBytesAgree ==
    \A reg_id \in RegIds :
        (/\ request = "p"
         /\ ret = read_register(waves, cursor, reg_id)
         /\ ret # Panic /\ ret.tag = "Ok"
         /\ read_registers(waves, cursor) # Panic) =>
            ret.val = RegisterOfG(gdb_serialize(read_registers(waves, cursor).val), reg_id)

RECURSIVE HexValue(_)
\* the value of a string of hexadecimal digits
HexValue(digits) ==
    IF digits = <<>> THEN 0
    ELSE HexValue(SubSeq(digits, 1, Len(digits) - 1)) * 16 + to_digit(digits[Len(digits)]).val

\* the thread a token names
ThreadOf(t) ==
    IF t = << 48 >> THEN [tag |-> "Any"]
    ELSE IF t = << NackByte, 49 >> THEN [tag |-> "All"]
    ELSE [tag |-> "Specific", tid |-> HexValue(t)]

\* C39: thread ids in an `m...` thread-info reply are hexadecimal numbers:
\* every comma-separated token yields one entry of threads (`0` as Any,
\* `-1` as All, any other token as Specific with its value read in base
\* 16), so the number of listed threads equals the number of tokens.
C39_ThreadIdsAreHex ==
    (/\ client.parsed # None /\ client.parsed.val.tag = "ThreadInfo"
     /\ client.raw.val.data[1] = 109
     /\ \A k \in 1..Len(split(Tail(client.raw.val.data), Comma)) :
            IsThreadToken(split(Tail(client.raw.val.data), Comma)[k])) =>
        LET tokens == split(Tail(client.raw.val.data), Comma)
            threads == client.parsed.val.threads
        IN  /\ Len(threads) = Len(tokens)
            /\ \A k \in 1..Len(tokens) : threads[k] = ThreadOf(tokens[k])

RECURSIVE InstructionsFrom(_, _, _)
\* the instructions that start at offset o and after it, up to the last
\* offset whose decodes the fetched bytes are kept for, when exactly one
\* decode succeeds at each of them
InstructionsFrom(instruction_bytes, pc, o) ==
    IF o \notin Offsets THEN <<>>
    ELSE LET width == IF instruction_bytes[o].u16 THEN 2 ELSE 4
         IN  << Instruction(width, pc + o) >>
                 \o InstructionsFrom(instruction_bytes, pc, o + width)

\* the offset after the last of a sequence of instructions that starts at pc
EndOffset(insts, pc) ==
    IF insts = <<>> THEN 0 ELSE (insts[Len(insts)].pc - pc) + insts[Len(insts)].width

\* C40: when the 12 bytes fetched consist of valid instructions the call
\* returns every instruction that lies wholly within them, in address
\* order, each with PC = pc + its offset.  An instruction that starts at
\* offset 8 lies within the 12 bytes whatever its width, so the result
\* has an entry for it: three 32-bit instructions yield three results.
C40_AllInstructions ==
    (/\ client.inst # None
     /\ client.inst.val.at = "returned"
     /\ \A o \in Offsets : client.inst.val.instruction_bytes[o].u16
                               # client.inst.val.instruction_bytes[o].u32) =>
        LET inst   == client.inst.val
            within == InstructionsFrom(inst.instruction_bytes, inst.pc, 0)
            out    == inst.result.val
        IN  /\ out.tag = "Ok"
            /\ Len(out.val) >= Len(within)
            /\ SubSeq(out.val, 1, Len(within)) = within
            /\ EndOffset(within, inst.pc) = FetchLen - U32Bytes =>
                   /\ Len(out.val) = Len(within) + 1
                   /\ out.val[Len(out.val)].pc = inst.pc + (FetchLen - U32Bytes)

====
